---- MODULE Spec2Model ----
(***************************************************************************)
(* Model of scripts/analyze.py: the complexity analyzer for PRD and        *)
(* architecture documents.  A text is a sequence of characters.            *)
(* The regular expressions of the source are kept as syntax trees and      *)
(* matched by a backtracking matcher that returns the possible matches in  *)
(* the order Python's re module tries them, so that the first one is the   *)
(* match Python reports.                                                   *)
(***************************************************************************)
EXTENDS Integers, Sequences, FiniteSets, TLC

(***************************************************************************)
(* Characters.  A text is a sequence of characters, each a string.  The    *)
(* characters are those a string of this language can hold, written as     *)
(* themselves (U+0000..U+00FF without the grave accent, and the characters *)
(* of the other rows of the Basic Multilingual Plane whose low byte is     *)
(* 80..FF), and the 93 lower-case letters str.lower() makes of them that   *)
(* no string can hold, written by their code points: "U+0253" is the one   *)
(* character U+0253.  The tables below are those of the Unicode database   *)
(* of the interpreter (14.0), cut to these characters.                     *)
(***************************************************************************)
AsciiUpper == <<"A","B","C","D","E","F","G","H","I","J","K","L","M",
                "N","O","P","Q","R","S","T","U","V","W","X","Y","Z">>

AsciiLower == <<"a","b","c","d","e","f","g","h","i","j","k","l","m",
                "n","o","p","q","r","s","t","u","v","w","x","y","z">>

AsciiDigits == {"0","1","2","3","4","5","6","7","8","9"}

AsciiUpperSet == {AsciiUpper[i] : i \in 1..Len(AsciiUpper)}

AsciiLowerSet == {AsciiLower[i] : i \in 1..Len(AsciiLower)}

\* the characters str.isspace() holds of, which are those \s matches and
\* str.strip() removes: U+0009..U+000D, U+001C..U+001F, the space, U+0085,
\* U+00A0 and U+1680
WhitespaceChars == <<"\t","\n","","\f","\r","","","",""," ",""," "," ">>

Whitespace == {WhitespaceChars[i] : i \in 1..Len(WhitespaceChars)}

\* the decimal digits (category Nd) beside 0..9
OtherDigits == <<
    "۰","۱","۲","۳","۴","۵","۶","۷","۸","۹","߀","߁","߂","߃","߄","߅",
    "߆","߇","߈","߉","০","১","২","৩","৪","৫","৬","৭","৮","৯","૦","૧",
    "૨","૩","૪","૫","૬","૭","૮","૯","௦","௧","௨","௩","௪","௫","௬","௭",
    "௮","௯","೦","೧","೨","೩","೪","೫","೬","೭","೮","೯","෦","෧","෨","෩",
    "෪","෫","෬","෭","෮","෯","໐","໑","໒","໓","໔","໕","໖","໗","໘","໙",
    "႐","႑","႒","႓","႔","႕","႖","႗","႘","႙","០","១","២","៣","៤","៥",
    "៦","៧","៨","៩","᧐","᧑","᧒","᧓","᧔","᧕","᧖","᧗","᧘","᧙","᪀","᪁",
    "᪂","᪃","᪄","᪅","᪆","᪇","᪈","᪉","᪐","᪑","᪒","᪓","᪔","᪕","᪖","᪗",
    "᪘","᪙","᮰","᮱","᮲","᮳","᮴","᮵","᮶","᮷","᮸","᮹","꣐","꣑","꣒","꣓",
    "꣔","꣕","꣖","꣗","꣘","꣙","꧐","꧑","꧒","꧓","꧔","꧕","꧖","꧗","꧘","꧙",
    "꧰","꧱","꧲","꧳","꧴","꧵","꧶","꧷","꧸","꧹","꯰","꯱","꯲","꯳","꯴","꯵",
    "꯶","꯷","꯸","꯹">>

\* the characters \d matches
DecimalDigits == AsciiDigits \cup {OtherDigits[i] : i \in 1..Len(OtherDigits)}

\* the characters beside A..Z that have a lower-case form of their own, and,
\* place by place, that form
OtherUpper == <<
    "À","Á","Â","Ã","Ä","Å","Æ","Ç","È","É","Ê","Ë","Ì","Í","Î","Ï",
    "Ð","Ñ","Ò","Ó","Ô","Õ","Ö","Ø","Ù","Ú","Û","Ü","Ý","Þ","Ɓ","Ƃ",
    "Ƅ","Ɔ","Ƈ","Ɖ","Ɗ","Ƌ","Ǝ","Ə","Ɛ","Ƒ","Ɠ","Ɣ","Ɩ","Ɨ","Ƙ","Ɯ",
    "Ɲ","Ɵ","Ơ","Ƣ","Ƥ","Ʀ","Ƨ","Ʃ","Ƭ","Ʈ","Ư","Ʊ","Ʋ","Ƴ","Ƶ","Ʒ",
    "Ƹ","Ƽ","Ǆ","ǅ","Ǉ","ǈ","Ǌ","ǋ","Ǎ","Ǐ","Ǒ","Ǔ","Ǖ","Ǘ","Ǚ","Ǜ",
    "Ǟ","Ǡ","Ǣ","Ǥ","Ǧ","Ǩ","Ǫ","Ǭ","Ǯ","Ǳ","ǲ","Ǵ","Ƕ","Ƿ","Ǹ","Ǻ",
    "Ǽ","Ǿ","Ά","Έ","Ή","Ί","Ό","Ύ","Ώ","Α","Β","Γ","Δ","Ε","Ζ","Η",
    "Θ","Ι","Κ","Λ","Μ","Ν","Ξ","Ο","Π","Ρ","Σ","Τ","Υ","Φ","Χ","Ψ",
    "Ω","Ϊ","Ϋ","Ϗ","Ϙ","Ϛ","Ϝ","Ϟ","Ϡ","Ϣ","Ϥ","Ϧ","Ϩ","Ϫ","Ϭ","Ϯ",
    "ϴ","Ϸ","Ϲ","Ϻ","Ͻ","Ͼ","Ͽ","Ҁ","Ҋ","Ҍ","Ҏ","Ґ","Ғ","Ҕ","Җ","Ҙ",
    "Қ","Ҝ","Ҟ","Ҡ","Ң","Ҥ","Ҧ","Ҩ","Ҫ","Ҭ","Ү","Ұ","Ҳ","Ҵ","Ҷ","Ҹ",
    "Һ","Ҽ","Ҿ","Ӏ","Ӂ","Ӄ","Ӆ","Ӈ","Ӊ","Ӌ","Ӎ","Ӑ","Ӓ","Ӕ","Ӗ","Ә",
    "Ӛ","Ӝ","Ӟ","Ӡ","Ӣ","Ӥ","Ӧ","Ө","Ӫ","Ӭ","Ӯ","Ӱ","Ӳ","Ӵ","Ӷ","Ӹ",
    "Ӻ","Ӽ","Ӿ","Ⴀ","Ⴁ","Ⴂ","Ⴃ","Ⴄ","Ⴅ","Ⴆ","Ⴇ","Ⴈ","Ⴉ","Ⴊ","Ⴋ","Ⴌ",
    "Ⴍ","Ⴎ","Ⴏ","Ⴐ","Ⴑ","Ⴒ","Ⴓ","Ⴔ","Ⴕ","Ⴖ","Ⴗ","Ⴘ","Ⴙ","Ⴚ","Ⴛ","Ⴜ",
    "Ⴝ","Ⴞ","Ⴟ","Ⴠ","Ⴡ","Ⴢ","Ⴣ","Ⴤ","Ⴥ","Ⴧ","Ⴭ","Ꭰ","Ꭱ","Ꭲ","Ꭳ","Ꭴ",
    "Ꭵ","Ꭶ","Ꭷ","Ꭸ","Ꭹ","Ꭺ","Ꭻ","Ꭼ","Ꭽ","Ꭾ","Ꭿ","Ꮀ","Ꮁ","Ꮂ","Ꮃ","Ꮄ",
    "Ꮅ","Ꮆ","Ꮇ","Ꮈ","Ꮉ","Ꮊ","Ꮋ","Ꮌ","Ꮍ","Ꮎ","Ꮏ","Ꮐ","Ꮑ","Ꮒ","Ꮓ","Ꮔ",
    "Ꮕ","Ꮖ","Ꮗ","Ꮘ","Ꮙ","Ꮚ","Ꮛ","Ꮜ","Ꮝ","Ꮞ","Ꮟ","Ꮠ","Ꮡ","Ꮢ","Ꮣ","Ꮤ",
    "Ꮥ","Ꮦ","Ꮧ","Ꮨ","Ꮩ","Ꮪ","Ꮫ","Ꮬ","Ꮭ","Ꮮ","Ꮯ","Ꮰ","Ꮱ","Ꮲ","Ꮳ","Ꮴ",
    "Ꮵ","Ꮶ","Ꮷ","Ꮸ","Ꮹ","Ꮺ","Ꮻ","Ꮼ","Ꮽ","Ꮾ","Ꮿ","Ᏸ","Ᏹ","Ᏺ","Ᏻ","Ᏼ",
    "Ᏽ","Ა","Ბ","Გ","Დ","Ე","Ვ","Ზ","Თ","Ი","Კ","Ლ","Მ","Ნ","Ო","Პ",
    "Ჟ","Რ","Ს","Ტ","Უ","Ფ","Ქ","Ღ","Ყ","Შ","Ჩ","Ც","Ძ","Წ","Ჭ","Ხ",
    "Ჯ","Ჰ","Ჱ","Ჲ","Ჳ","Ჴ","Ჵ","Ჶ","Ჷ","Ჸ","Ჹ","Ჺ","Ჽ","Ჾ","Ჿ","Ẁ",
    "Ẃ","Ẅ","Ẇ","Ẉ","Ẋ","Ẍ","Ẏ","Ẑ","Ẓ","Ẕ","ẞ","Ạ","Ả","Ấ","Ầ","Ẩ",
    "Ẫ","Ậ","Ắ","Ằ","Ẳ","Ẵ","Ặ","Ẹ","Ẻ","Ẽ","Ế","Ề","Ể","Ễ","Ệ","Ỉ",
    "Ị","Ọ","Ỏ","Ố","Ồ","Ổ","Ỗ","Ộ","Ớ","Ờ","Ở","Ỡ","Ợ","Ụ","Ủ","Ứ",
    "Ừ","Ử","Ữ","Ự","Ỳ","Ỵ","Ỷ","Ỹ","Ỻ","Ỽ","Ỿ","ᾈ","ᾉ","ᾊ","ᾋ","ᾌ",
    "ᾍ","ᾎ","ᾏ","ᾘ","ᾙ","ᾚ","ᾛ","ᾜ","ᾝ","ᾞ","ᾟ","ᾨ","ᾩ","ᾪ","ᾫ","ᾬ",
    "ᾭ","ᾮ","ᾯ","Ᾰ","Ᾱ","Ὰ","Ά","ᾼ","Ὲ","Έ","Ὴ","Ή","ῌ","Ῐ","Ῑ","Ὶ",
    "Ί","Ῠ","Ῡ","Ὺ","Ύ","Ῥ","Ὸ","Ό","Ὼ","Ώ","ῼ","Ↄ","Ⓐ","Ⓑ","Ⓒ","Ⓓ",
    "Ⓔ","Ⓕ","Ⓖ","Ⓗ","Ⓘ","Ⓙ","Ⓚ","Ⓛ","Ⓜ","Ⓝ","Ⓞ","Ⓟ","Ⓠ","Ⓡ","Ⓢ","Ⓣ",
    "Ⓤ","Ⓥ","Ⓦ","Ⓧ","Ⓨ","Ⓩ","Ⲁ","Ⲃ","Ⲅ","Ⲇ","Ⲉ","Ⲋ","Ⲍ","Ⲏ","Ⲑ","Ⲓ",
    "Ⲕ","Ⲗ","Ⲙ","Ⲛ","Ⲝ","Ⲟ","Ⲡ","Ⲣ","Ⲥ","Ⲧ","Ⲩ","Ⲫ","Ⲭ","Ⲯ","Ⲱ","Ⲳ",
    "Ⲵ","Ⲷ","Ⲹ","Ⲻ","Ⲽ","Ⲿ","Ⳁ","Ⳃ","Ⳅ","Ⳇ","Ⳉ","Ⳋ","Ⳍ","Ⳏ","Ⳑ","Ⳓ",
    "Ⳕ","Ⳗ","Ⳙ","Ⳛ","Ⳝ","Ⳟ","Ⳡ","Ⳣ","Ⳬ","Ⳮ","Ⳳ","Ꚁ","Ꚃ","Ꚅ","Ꚇ","Ꚉ",
    "Ꚋ","Ꚍ","Ꚏ","Ꚑ","Ꚓ","Ꚕ","Ꚗ","Ꚙ","Ꚛ","Ꞁ","Ꞃ","Ꞅ","Ꞇ","Ꞌ","Ɥ","Ꞑ",
    "Ꞓ","Ꞗ","Ꞙ","Ꞛ","Ꞝ","Ꞟ","Ꞡ","Ꞣ","Ꞥ","Ꞧ","Ꞩ","Ɦ","Ɜ","Ɡ","Ɬ","Ɪ",
    "Ʞ","Ʇ","Ʝ","Ꭓ","Ꞵ","Ꞷ","Ꞹ","Ꞻ","Ꞽ","Ꞿ","Ꟁ","Ꟃ","Ꞔ","Ʂ","Ᶎ","Ꟈ",
    "Ꟊ","Ꟑ","Ꟗ","Ꟙ","Ꟶ">>

OtherLower == <<
    "à","á","â","ã","ä","å","æ","ç","è","é","ê","ë",
    "ì","í","î","ï","ð","ñ","ò","ó","ô","õ","ö","ø",
    "ù","ú","û","ü","ý","þ","U+0253","ƃ","ƅ","U+0254","ƈ","U+0256",
    "U+0257","ƌ","ǝ","U+0259","U+025B","ƒ","U+0260","U+0263","U+0269","U+0268","ƙ","U+026F",
    "U+0272","U+0275","ơ","ƣ","ƥ","ʀ","ƨ","ʃ","ƭ","ʈ","ư","ʊ",
    "ʋ","ƴ","ƶ","ʒ","ƹ","ƽ","ǆ","ǆ","ǉ","ǉ","ǌ","ǌ",
    "ǎ","ǐ","ǒ","ǔ","ǖ","ǘ","ǚ","ǜ","ǟ","ǡ","ǣ","ǥ",
    "ǧ","ǩ","ǫ","ǭ","ǯ","ǳ","ǳ","ǵ","ƕ","ƿ","ǹ","ǻ",
    "ǽ","ǿ","ά","έ","ή","ί","ό","ύ","ώ","α","β","γ",
    "δ","ε","ζ","η","θ","ι","κ","λ","μ","ν","ξ","ο",
    "π","ρ","σ","τ","υ","φ","χ","ψ","ω","ϊ","ϋ","ϗ",
    "ϙ","ϛ","ϝ","ϟ","ϡ","ϣ","ϥ","ϧ","ϩ","ϫ","ϭ","ϯ",
    "θ","ϸ","ϲ","ϻ","U+037B","U+037C","U+037D","ҁ","ҋ","ҍ","ҏ","ґ",
    "ғ","ҕ","җ","ҙ","қ","ҝ","ҟ","ҡ","ң","ҥ","ҧ","ҩ",
    "ҫ","ҭ","ү","ұ","ҳ","ҵ","ҷ","ҹ","һ","ҽ","ҿ","ӏ",
    "ӂ","ӄ","ӆ","ӈ","ӊ","ӌ","ӎ","ӑ","ӓ","ӕ","ӗ","ә",
    "ӛ","ӝ","ӟ","ӡ","ӣ","ӥ","ӧ","ө","ӫ","ӭ","ӯ","ӱ",
    "ӳ","ӵ","ӷ","ӹ","ӻ","ӽ","ӿ","U+2D00","U+2D01","U+2D02","U+2D03","U+2D04",
    "U+2D05","U+2D06","U+2D07","U+2D08","U+2D09","U+2D0A","U+2D0B","U+2D0C","U+2D0D","U+2D0E","U+2D0F","U+2D10",
    "U+2D11","U+2D12","U+2D13","U+2D14","U+2D15","U+2D16","U+2D17","U+2D18","U+2D19","U+2D1A","U+2D1B","U+2D1C",
    "U+2D1D","U+2D1E","U+2D1F","U+2D20","U+2D21","U+2D22","U+2D23","U+2D24","U+2D25","U+2D27","U+2D2D","U+AB70",
    "U+AB71","U+AB72","U+AB73","U+AB74","U+AB75","U+AB76","U+AB77","U+AB78","U+AB79","U+AB7A","U+AB7B","U+AB7C",
    "U+AB7D","U+AB7E","U+AB7F","ꮀ","ꮁ","ꮂ","ꮃ","ꮄ","ꮅ","ꮆ","ꮇ","ꮈ",
    "ꮉ","ꮊ","ꮋ","ꮌ","ꮍ","ꮎ","ꮏ","ꮐ","ꮑ","ꮒ","ꮓ","ꮔ",
    "ꮕ","ꮖ","ꮗ","ꮘ","ꮙ","ꮚ","ꮛ","ꮜ","ꮝ","ꮞ","ꮟ","ꮠ",
    "ꮡ","ꮢ","ꮣ","ꮤ","ꮥ","ꮦ","ꮧ","ꮨ","ꮩ","ꮪ","ꮫ","ꮬ",
    "ꮭ","ꮮ","ꮯ","ꮰ","ꮱ","ꮲ","ꮳ","ꮴ","ꮵ","ꮶ","ꮷ","ꮸ",
    "ꮹ","ꮺ","ꮻ","ꮼ","ꮽ","ꮾ","ꮿ","ᏸ","ᏹ","ᏺ","ᏻ","ᏼ",
    "ᏽ","ა","ბ","გ","დ","ე","ვ","ზ","თ","ი","კ","ლ",
    "მ","ნ","ო","პ","ჟ","რ","ს","ტ","უ","ფ","ქ","ღ",
    "ყ","შ","ჩ","ც","ძ","წ","ჭ","ხ","ჯ","ჰ","ჱ","ჲ",
    "ჳ","ჴ","ჵ","ჶ","ჷ","ჸ","ჹ","ჺ","ჽ","ჾ","ჿ","ẁ",
    "ẃ","ẅ","ẇ","ẉ","ẋ","ẍ","ẏ","ẑ","ẓ","ẕ","ß","ạ",
    "ả","ấ","ầ","ẩ","ẫ","ậ","ắ","ằ","ẳ","ẵ","ặ","ẹ",
    "ẻ","ẽ","ế","ề","ể","ễ","ệ","ỉ","ị","ọ","ỏ","ố",
    "ồ","ổ","ỗ","ộ","ớ","ờ","ở","ỡ","ợ","ụ","ủ","ứ",
    "ừ","ử","ữ","ự","ỳ","ỵ","ỷ","ỹ","ỻ","ỽ","ỿ","ᾀ",
    "ᾁ","ᾂ","ᾃ","ᾄ","ᾅ","ᾆ","ᾇ","ᾐ","ᾑ","ᾒ","ᾓ","ᾔ",
    "ᾕ","ᾖ","ᾗ","ᾠ","ᾡ","ᾢ","ᾣ","ᾤ","ᾥ","ᾦ","ᾧ","ᾰ",
    "ᾱ","U+1F70","U+1F71","ᾳ","U+1F72","U+1F73","U+1F74","U+1F75","ῃ","ῐ","ῑ","U+1F76",
    "U+1F77","ῠ","ῡ","U+1F7A","U+1F7B","ῥ","U+1F78","U+1F79","U+1F7C","U+1F7D","ῳ","ↄ",
    "ⓐ","ⓑ","ⓒ","ⓓ","ⓔ","ⓕ","ⓖ","ⓗ","ⓘ","ⓙ","ⓚ","ⓛ",
    "ⓜ","ⓝ","ⓞ","ⓟ","ⓠ","ⓡ","ⓢ","ⓣ","ⓤ","ⓥ","ⓦ","ⓧ",
    "ⓨ","ⓩ","ⲁ","ⲃ","ⲅ","ⲇ","ⲉ","ⲋ","ⲍ","ⲏ","ⲑ","ⲓ",
    "ⲕ","ⲗ","ⲙ","ⲛ","ⲝ","ⲟ","ⲡ","ⲣ","ⲥ","ⲧ","ⲩ","ⲫ",
    "ⲭ","ⲯ","ⲱ","ⲳ","ⲵ","ⲷ","ⲹ","ⲻ","ⲽ","ⲿ","ⳁ","ⳃ",
    "ⳅ","ⳇ","ⳉ","ⳋ","ⳍ","ⳏ","ⳑ","ⳓ","ⳕ","ⳗ","ⳙ","ⳛ",
    "ⳝ","ⳟ","ⳡ","ⳣ","ⳬ","ⳮ","ⳳ","ꚁ","ꚃ","ꚅ","ꚇ","ꚉ",
    "ꚋ","ꚍ","ꚏ","ꚑ","ꚓ","ꚕ","ꚗ","ꚙ","ꚛ","ꞁ","ꞃ","ꞅ",
    "ꞇ","ꞌ","U+0265","ꞑ","ꞓ","ꞗ","ꞙ","ꞛ","ꞝ","ꞟ","ꞡ","ꞣ",
    "ꞥ","ꞧ","ꞩ","U+0266","U+025C","U+0261","U+026C","U+026A","ʞ","ʇ","ʝ","U+AB53",
    "ꞵ","ꞷ","ꞹ","ꞻ","ꞽ","ꞿ","ꟁ","ꟃ","ꞔ","ʂ","ᶎ","ꟈ",
    "ꟊ","ꟑ","ꟗ","ꟙ","ꟶ">>

UpperCase == AsciiUpper \o OtherUpper

LowerCase == AsciiLower \o OtherLower

UpperSet == {UpperCase[i] : i \in 1..Len(UpperCase)}

ToLower == [c \in UpperSet |-> LowerCase[CHOOSE i \in 1..Len(UpperCase) : UpperCase[i] = c]]

ToUpper == [c \in AsciiLowerSet |-> AsciiUpper[CHOOSE i \in 1..Len(AsciiLower) : AsciiLower[i] = c]]

\* the lower-case form of one character, whatever stands around it
LowerChar(c) == IF c \in UpperSet THEN ToLower[c] ELSE c

\* the upper-case form of a character of a..z, 0..9 and the space
UpperChar(c) == IF c \in AsciiLowerSet THEN ToUpper[c] ELSE c

\* the cased characters that are not case-ignorable
CasedChars == <<
    "A","B","C","D","E","F","G","H","I","J","K","L",
    "M","N","O","P","Q","R","S","T","U","V","W","X",
    "Y","Z","a","b","c","d","e","f","g","h","i","j",
    "k","l","m","n","o","p","q","r","s","t","u","v",
    "w","x","y","z","ª","µ","º","À","Á","Â","Ã","Ä",
    "Å","Æ","Ç","È","É","Ê","Ë","Ì","Í","Î","Ï","Ð",
    "Ñ","Ò","Ó","Ô","Õ","Ö","Ø","Ù","Ú","Û","Ü","Ý",
    "Þ","ß","à","á","â","ã","ä","å","æ","ç","è","é",
    "ê","ë","ì","í","î","ï","ð","ñ","ò","ó","ô","õ",
    "ö","ø","ù","ú","û","ü","ý","þ","ÿ","ƀ","Ɓ","Ƃ",
    "ƃ","Ƅ","ƅ","Ɔ","Ƈ","ƈ","Ɖ","Ɗ","Ƌ","ƌ","ƍ","Ǝ",
    "Ə","Ɛ","Ƒ","ƒ","Ɠ","Ɣ","ƕ","Ɩ","Ɨ","Ƙ","ƙ","ƚ",
    "ƛ","Ɯ","Ɲ","ƞ","Ɵ","Ơ","ơ","Ƣ","ƣ","Ƥ","ƥ","Ʀ",
    "Ƨ","ƨ","Ʃ","ƪ","ƫ","Ƭ","ƭ","Ʈ","Ư","ư","Ʊ","Ʋ",
    "Ƴ","ƴ","Ƶ","ƶ","Ʒ","Ƹ","ƹ","ƺ","Ƽ","ƽ","ƾ","ƿ",
    "Ǆ","ǅ","ǆ","Ǉ","ǈ","ǉ","Ǌ","ǋ","ǌ","Ǎ","ǎ","Ǐ",
    "ǐ","Ǒ","ǒ","Ǔ","ǔ","Ǖ","ǖ","Ǘ","ǘ","Ǚ","ǚ","Ǜ",
    "ǜ","ǝ","Ǟ","ǟ","Ǡ","ǡ","Ǣ","ǣ","Ǥ","ǥ","Ǧ","ǧ",
    "Ǩ","ǩ","Ǫ","ǫ","Ǭ","ǭ","Ǯ","ǯ","ǰ","Ǳ","ǲ","ǳ",
    "Ǵ","ǵ","Ƕ","Ƿ","Ǹ","ǹ","Ǻ","ǻ","Ǽ","ǽ","Ǿ","ǿ",
    "U+0253","U+0254","U+0256","U+0257","U+0259","U+025B","U+025C","U+0260","U+0261","U+0263","U+0265","U+0266",
    "U+0268","U+0269","U+026A","U+026C","U+026F","U+0272","U+0275","ʀ","ʁ","ʂ","ʃ","ʄ",
    "ʅ","ʆ","ʇ","ʈ","ʉ","ʊ","ʋ","ʌ","ʍ","ʎ","ʏ","ʐ",
    "ʑ","ʒ","ʓ","ʕ","ʖ","ʗ","ʘ","ʙ","ʚ","ʛ","ʜ","ʝ",
    "ʞ","ʟ","ʠ","ʡ","ʢ","ʣ","ʤ","ʥ","ʦ","ʧ","ʨ","ʩ",
    "ʪ","ʫ","ʬ","ʭ","ʮ","ʯ","U+037B","U+037C","U+037D","Ά","Έ","Ή",
    "Ί","Ό","Ύ","Ώ","ΐ","Α","Β","Γ","Δ","Ε","Ζ","Η",
    "Θ","Ι","Κ","Λ","Μ","Ν","Ξ","Ο","Π","Ρ","Σ","Τ",
    "Υ","Φ","Χ","Ψ","Ω","Ϊ","Ϋ","ά","έ","ή","ί","ΰ",
    "α","β","γ","δ","ε","ζ","η","θ","ι","κ","λ","μ",
    "ν","ξ","ο","π","ρ","ς","σ","τ","υ","φ","χ","ψ",
    "ω","ϊ","ϋ","ό","ύ","ώ","Ϗ","ϐ","ϑ","ϒ","ϓ","ϔ",
    "ϕ","ϖ","ϗ","Ϙ","ϙ","Ϛ","ϛ","Ϝ","ϝ","Ϟ","ϟ","Ϡ",
    "ϡ","Ϣ","ϣ","Ϥ","ϥ","Ϧ","ϧ","Ϩ","ϩ","Ϫ","ϫ","Ϭ",
    "ϭ","Ϯ","ϯ","ϰ","ϱ","ϲ","ϳ","ϴ","ϵ","Ϸ","ϸ","Ϲ",
    "Ϻ","ϻ","ϼ","Ͻ","Ͼ","Ͽ","Ҁ","ҁ","Ҋ","ҋ","Ҍ","ҍ",
    "Ҏ","ҏ","Ґ","ґ","Ғ","ғ","Ҕ","ҕ","Җ","җ","Ҙ","ҙ",
    "Қ","қ","Ҝ","ҝ","Ҟ","ҟ","Ҡ","ҡ","Ң","ң","Ҥ","ҥ",
    "Ҧ","ҧ","Ҩ","ҩ","Ҫ","ҫ","Ҭ","ҭ","Ү","ү","Ұ","ұ",
    "Ҳ","ҳ","Ҵ","ҵ","Ҷ","ҷ","Ҹ","ҹ","Һ","һ","Ҽ","ҽ",
    "Ҿ","ҿ","Ӏ","Ӂ","ӂ","Ӄ","ӄ","Ӆ","ӆ","Ӈ","ӈ","Ӊ",
    "ӊ","Ӌ","ӌ","Ӎ","ӎ","ӏ","Ӑ","ӑ","Ӓ","ӓ","Ӕ","ӕ",
    "Ӗ","ӗ","Ә","ә","Ӛ","ӛ","Ӝ","ӝ","Ӟ","ӟ","Ӡ","ӡ",
    "Ӣ","ӣ","Ӥ","ӥ","Ӧ","ӧ","Ө","ө","Ӫ","ӫ","Ӭ","ӭ",
    "Ӯ","ӯ","Ӱ","ӱ","Ӳ","ӳ","Ӵ","ӵ","Ӷ","ӷ","Ӹ","ӹ",
    "Ӻ","ӻ","Ӽ","ӽ","Ӿ","ӿ","ր","ց","ւ","փ","ք","օ",
    "ֆ","և","ֈ","Ⴀ","Ⴁ","Ⴂ","Ⴃ","Ⴄ","Ⴅ","Ⴆ","Ⴇ","Ⴈ",
    "Ⴉ","Ⴊ","Ⴋ","Ⴌ","Ⴍ","Ⴎ","Ⴏ","Ⴐ","Ⴑ","Ⴒ","Ⴓ","Ⴔ",
    "Ⴕ","Ⴖ","Ⴗ","Ⴘ","Ⴙ","Ⴚ","Ⴛ","Ⴜ","Ⴝ","Ⴞ","Ⴟ","Ⴠ",
    "Ⴡ","Ⴢ","Ⴣ","Ⴤ","Ⴥ","Ⴧ","Ⴭ","ა","ბ","გ","დ","ე",
    "ვ","ზ","თ","ი","კ","ლ","მ","ნ","ო","პ","ჟ","რ",
    "ს","ტ","უ","ფ","ქ","ღ","ყ","შ","ჩ","ც","ძ","წ",
    "ჭ","ხ","ჯ","ჰ","ჱ","ჲ","ჳ","ჴ","ჵ","ჶ","ჷ","ჸ",
    "ჹ","ჺ","ჽ","ჾ","ჿ","Ꭰ","Ꭱ","Ꭲ","Ꭳ","Ꭴ","Ꭵ","Ꭶ",
    "Ꭷ","Ꭸ","Ꭹ","Ꭺ","Ꭻ","Ꭼ","Ꭽ","Ꭾ","Ꭿ","Ꮀ","Ꮁ","Ꮂ",
    "Ꮃ","Ꮄ","Ꮅ","Ꮆ","Ꮇ","Ꮈ","Ꮉ","Ꮊ","Ꮋ","Ꮌ","Ꮍ","Ꮎ",
    "Ꮏ","Ꮐ","Ꮑ","Ꮒ","Ꮓ","Ꮔ","Ꮕ","Ꮖ","Ꮗ","Ꮘ","Ꮙ","Ꮚ",
    "Ꮛ","Ꮜ","Ꮝ","Ꮞ","Ꮟ","Ꮠ","Ꮡ","Ꮢ","Ꮣ","Ꮤ","Ꮥ","Ꮦ",
    "Ꮧ","Ꮨ","Ꮩ","Ꮪ","Ꮫ","Ꮬ","Ꮭ","Ꮮ","Ꮯ","Ꮰ","Ꮱ","Ꮲ",
    "Ꮳ","Ꮴ","Ꮵ","Ꮶ","Ꮷ","Ꮸ","Ꮹ","Ꮺ","Ꮻ","Ꮼ","Ꮽ","Ꮾ",
    "Ꮿ","Ᏸ","Ᏹ","Ᏺ","Ᏻ","Ᏼ","Ᏽ","ᏸ","ᏹ","ᏺ","ᏻ","ᏼ",
    "ᏽ","ᲀ","ᲁ","ᲂ","ᲃ","ᲄ","ᲅ","ᲆ","ᲇ","ᲈ","Ა","Ბ",
    "Გ","Დ","Ე","Ვ","Ზ","Თ","Ი","Კ","Ლ","Მ","Ნ","Ო",
    "Პ","Ჟ","Რ","Ს","Ტ","Უ","Ფ","Ქ","Ღ","Ყ","Შ","Ჩ",
    "Ც","Ძ","Წ","Ჭ","Ხ","Ჯ","Ჰ","Ჱ","Ჲ","Ჳ","Ჴ","Ჵ",
    "Ჶ","Ჷ","Ჸ","Ჹ","Ჺ","Ჽ","Ჾ","Ჿ","ᶀ","ᶁ","ᶂ","ᶃ",
    "ᶄ","ᶅ","ᶆ","ᶇ","ᶈ","ᶉ","ᶊ","ᶋ","ᶌ","ᶍ","ᶎ","ᶏ",
    "ᶐ","ᶑ","ᶒ","ᶓ","ᶔ","ᶕ","ᶖ","ᶗ","ᶘ","ᶙ","ᶚ","Ẁ",
    "ẁ","Ẃ","ẃ","Ẅ","ẅ","Ẇ","ẇ","Ẉ","ẉ","Ẋ","ẋ","Ẍ",
    "ẍ","Ẏ","ẏ","Ẑ","ẑ","Ẓ","ẓ","Ẕ","ẕ","ẖ","ẗ","ẘ",
    "ẙ","ẚ","ẛ","ẜ","ẝ","ẞ","ẟ","Ạ","ạ","Ả","ả","Ấ",
    "ấ","Ầ","ầ","Ẩ","ẩ","Ẫ","ẫ","Ậ","ậ","Ắ","ắ","Ằ",
    "ằ","Ẳ","ẳ","Ẵ","ẵ","Ặ","ặ","Ẹ","ẹ","Ẻ","ẻ","Ẽ",
    "ẽ","Ế","ế","Ề","ề","Ể","ể","Ễ","ễ","Ệ","ệ","Ỉ",
    "ỉ","Ị","ị","Ọ","ọ","Ỏ","ỏ","Ố","ố","Ồ","ồ","Ổ",
    "ổ","Ỗ","ỗ","Ộ","ộ","Ớ","ớ","Ờ","ờ","Ở","ở","Ỡ",
    "ỡ","Ợ","ợ","Ụ","ụ","Ủ","ủ","Ứ","ứ","Ừ","ừ","Ử",
    "ử","Ữ","ữ","Ự","ự","Ỳ","ỳ","Ỵ","ỵ","Ỷ","ỷ","Ỹ",
    "ỹ","Ỻ","ỻ","Ỽ","ỽ","Ỿ","ỿ","U+1F70","U+1F71","U+1F72","U+1F73","U+1F74",
    "U+1F75","U+1F76","U+1F77","U+1F78","U+1F79","U+1F7A","U+1F7B","U+1F7C","U+1F7D","ᾀ","ᾁ","ᾂ",
    "ᾃ","ᾄ","ᾅ","ᾆ","ᾇ","ᾈ","ᾉ","ᾊ","ᾋ","ᾌ","ᾍ","ᾎ",
    "ᾏ","ᾐ","ᾑ","ᾒ","ᾓ","ᾔ","ᾕ","ᾖ","ᾗ","ᾘ","ᾙ","ᾚ",
    "ᾛ","ᾜ","ᾝ","ᾞ","ᾟ","ᾠ","ᾡ","ᾢ","ᾣ","ᾤ","ᾥ","ᾦ",
    "ᾧ","ᾨ","ᾩ","ᾪ","ᾫ","ᾬ","ᾭ","ᾮ","ᾯ","ᾰ","ᾱ","ᾲ",
    "ᾳ","ᾴ","ᾶ","ᾷ","Ᾰ","Ᾱ","Ὰ","Ά","ᾼ","ι","ῂ","ῃ",
    "ῄ","ῆ","ῇ","Ὲ","Έ","Ὴ","Ή","ῌ","ῐ","ῑ","ῒ","ΐ",
    "ῖ","ῗ","Ῐ","Ῑ","Ὶ","Ί","ῠ","ῡ","ῢ","ΰ","ῤ","ῥ",
    "ῦ","ῧ","Ῠ","Ῡ","Ὺ","Ύ","Ῥ","ῲ","ῳ","ῴ","ῶ","ῷ",
    "Ὸ","Ό","Ὼ","Ώ","ῼ","Ↄ","ↄ","Ⓐ","Ⓑ","Ⓒ","Ⓓ","Ⓔ",
    "Ⓕ","Ⓖ","Ⓗ","Ⓘ","Ⓙ","Ⓚ","Ⓛ","Ⓜ","Ⓝ","Ⓞ","Ⓟ","Ⓠ",
    "Ⓡ","Ⓢ","Ⓣ","Ⓤ","Ⓥ","Ⓦ","Ⓧ","Ⓨ","Ⓩ","ⓐ","ⓑ","ⓒ",
    "ⓓ","ⓔ","ⓕ","ⓖ","ⓗ","ⓘ","ⓙ","ⓚ","ⓛ","ⓜ","ⓝ","ⓞ",
    "ⓟ","ⓠ","ⓡ","ⓢ","ⓣ","ⓤ","ⓥ","ⓦ","ⓧ","ⓨ","ⓩ","Ⲁ",
    "ⲁ","Ⲃ","ⲃ","Ⲅ","ⲅ","Ⲇ","ⲇ","Ⲉ","ⲉ","Ⲋ","ⲋ","Ⲍ",
    "ⲍ","Ⲏ","ⲏ","Ⲑ","ⲑ","Ⲓ","ⲓ","Ⲕ","ⲕ","Ⲗ","ⲗ","Ⲙ",
    "ⲙ","Ⲛ","ⲛ","Ⲝ","ⲝ","Ⲟ","ⲟ","Ⲡ","ⲡ","Ⲣ","ⲣ","Ⲥ",
    "ⲥ","Ⲧ","ⲧ","Ⲩ","ⲩ","Ⲫ","ⲫ","Ⲭ","ⲭ","Ⲯ","ⲯ","Ⲱ",
    "ⲱ","Ⲳ","ⲳ","Ⲵ","ⲵ","Ⲷ","ⲷ","Ⲹ","ⲹ","Ⲻ","ⲻ","Ⲽ",
    "ⲽ","Ⲿ","ⲿ","Ⳁ","ⳁ","Ⳃ","ⳃ","Ⳅ","ⳅ","Ⳇ","ⳇ","Ⳉ",
    "ⳉ","Ⳋ","ⳋ","Ⳍ","ⳍ","Ⳏ","ⳏ","Ⳑ","ⳑ","Ⳓ","ⳓ","Ⳕ",
    "ⳕ","Ⳗ","ⳗ","Ⳙ","ⳙ","Ⳛ","ⳛ","Ⳝ","ⳝ","Ⳟ","ⳟ","Ⳡ",
    "ⳡ","Ⳣ","ⳣ","ⳤ","Ⳬ","ⳬ","Ⳮ","ⳮ","Ⳳ","ⳳ","U+2D00","U+2D01",
    "U+2D02","U+2D03","U+2D04","U+2D05","U+2D06","U+2D07","U+2D08","U+2D09","U+2D0A","U+2D0B","U+2D0C","U+2D0D",
    "U+2D0E","U+2D0F","U+2D10","U+2D11","U+2D12","U+2D13","U+2D14","U+2D15","U+2D16","U+2D17","U+2D18","U+2D19",
    "U+2D1A","U+2D1B","U+2D1C","U+2D1D","U+2D1E","U+2D1F","U+2D20","U+2D21","U+2D22","U+2D23","U+2D24","U+2D25",
    "U+2D27","U+2D2D","Ꚁ","ꚁ","Ꚃ","ꚃ","Ꚅ","ꚅ","Ꚇ","ꚇ","Ꚉ","ꚉ",
    "Ꚋ","ꚋ","Ꚍ","ꚍ","Ꚏ","ꚏ","Ꚑ","ꚑ","Ꚓ","ꚓ","Ꚕ","ꚕ",
    "Ꚗ","ꚗ","Ꚙ","ꚙ","Ꚛ","ꚛ","Ꞁ","ꞁ","Ꞃ","ꞃ","Ꞅ","ꞅ",
    "Ꞇ","ꞇ","Ꞌ","ꞌ","Ɥ","ꞎ","Ꞑ","ꞑ","Ꞓ","ꞓ","ꞔ","ꞕ",
    "Ꞗ","ꞗ","Ꞙ","ꞙ","Ꞛ","ꞛ","Ꞝ","ꞝ","Ꞟ","ꞟ","Ꞡ","ꞡ",
    "Ꞣ","ꞣ","Ꞥ","ꞥ","Ꞧ","ꞧ","Ꞩ","ꞩ","Ɦ","Ɜ","Ɡ","Ɬ",
    "Ɪ","ꞯ","Ʞ","Ʇ","Ʝ","Ꭓ","Ꞵ","ꞵ","Ꞷ","ꞷ","Ꞹ","ꞹ",
    "Ꞻ","ꞻ","Ꞽ","ꞽ","Ꞿ","ꞿ","Ꟁ","ꟁ","Ꟃ","ꟃ","Ꞔ","Ʂ",
    "Ᶎ","Ꟈ","ꟈ","Ꟊ","ꟊ","Ꟑ","ꟑ","ꟓ","ꟕ","Ꟗ","ꟗ","Ꟙ",
    "ꟙ","Ꟶ","ꟶ","ꟺ","U+AB53","U+AB70","U+AB71","U+AB72","U+AB73","U+AB74","U+AB75","U+AB76",
    "U+AB77","U+AB78","U+AB79","U+AB7A","U+AB7B","U+AB7C","U+AB7D","U+AB7E","U+AB7F","ꮀ","ꮁ","ꮂ",
    "ꮃ","ꮄ","ꮅ","ꮆ","ꮇ","ꮈ","ꮉ","ꮊ","ꮋ","ꮌ","ꮍ","ꮎ",
    "ꮏ","ꮐ","ꮑ","ꮒ","ꮓ","ꮔ","ꮕ","ꮖ","ꮗ","ꮘ","ꮙ","ꮚ",
    "ꮛ","ꮜ","ꮝ","ꮞ","ꮟ","ꮠ","ꮡ","ꮢ","ꮣ","ꮤ","ꮥ","ꮦ",
    "ꮧ","ꮨ","ꮩ","ꮪ","ꮫ","ꮬ","ꮭ","ꮮ","ꮯ","ꮰ","ꮱ","ꮲ",
    "ꮳ","ꮴ","ꮵ","ꮶ","ꮷ","ꮸ","ꮹ","ꮺ","ꮻ","ꮼ","ꮽ","ꮾ",
    "ꮿ">>

Cased == {CasedChars[i] : i \in 1..Len(CasedChars)}

\* the case-ignorable characters
CaseIgnorableChars == <<
    "'",".",":","^","¨","­","¯","´","·","¸","ʰ","ʱ","ʲ","ʳ","ʴ","ʵ",
    "ʶ","ʷ","ʸ","ʹ","ʺ","ʻ","ʼ","ʽ","ʾ","ʿ","ˀ","ˁ","˂","˃","˄","˅",
    "ˆ","ˇ","ˈ","ˉ","ˊ","ˋ","ˌ","ˍ","ˎ","ˏ","ː","ˑ","˒","˓","˔","˕",
    "˖","˗","˘","˙","˚","˛","˜","˝","˞","˟","ˠ","ˡ","ˢ","ˣ","ˤ","˥",
    "˦","˧","˨","˩","˪","˫","ˬ","˭","ˮ","˯","˰","˱","˲","˳","˴","˵",
    "˶","˷","˸","˹","˺","˻","˼","˽","˾","˿","΄","΅","·","҃","҄","҅",
    "҆","҇","҈","҉","֑","֒","֓","֔","֕","֖","֗","֘","֙","֚","֛","֜",
    "֝","֞","֟","֠","֡","֢","֣","֤","֥","֦","֧","֨","֩","֪","֫","֬",
    "֭","֮","֯","ְ","ֱ","ֲ","ֳ","ִ","ֵ","ֶ","ַ","ָ","ֹ","ֺ","ֻ","ּ",
    "ֽ","ֿ","ׁ","ׂ","ׄ","ׅ","ׇ","״","ۖ","ۗ","ۘ","ۙ","ۚ","ۛ","ۜ","۝",
    "۟","۠","ۡ","ۢ","ۣ","ۤ","ۥ","ۦ","ۧ","ۨ","۪","۫","۬","ۭ","ަ","ާ",
    "ި","ީ","ު","ޫ","ެ","ޭ","ޮ","ޯ","ް","߫","߬","߭","߮","߯","߰","߱",
    "߲","߳","ߴ","ߵ","ߺ","߽","࢈","࢐","࢑","࢘","࢙","࢚","࢛","࢜","࢝","࢞",
    "࢟","ࣉ","࣊","࣋","࣌","࣍","࣎","࣏","࣐","࣑","࣒","࣓","ࣔ","ࣕ","ࣖ","ࣗ",
    "ࣘ","ࣙ","ࣚ","ࣛ","ࣜ","ࣝ","ࣞ","ࣟ","࣠","࣡","࣢","ࣣ","ࣤ","ࣥ","ࣦ","ࣧ",
    "ࣨ","ࣩ","࣪","࣫","࣬","࣭","࣮","࣯","ࣰ","ࣱ","ࣲ","ࣳ","ࣴ","ࣵ","ࣶ","ࣷ",
    "ࣸ","ࣹ","ࣺ","ࣻ","ࣼ","ࣽ","ࣾ","ࣿ","ঁ","়","ু","ূ","ৃ","ৄ","্","ৢ",
    "ৣ","৾","ઁ","ં","઼","ુ","ૂ","ૃ","ૄ","ૅ","ે","ૈ","્","ૢ","ૣ","ૺ",
    "ૻ","ૼ","૽","૾","૿","ஂ","ீ","்","ಁ","಼","ಿ","ೆ","ೌ","್","ೢ","ೣ",
    "ඁ","්","ි","ී","ු","ූ","ັ","ິ","ີ","ຶ","ື","ຸ","ູ","຺","ົ","ຼ",
    "ໆ","່","້","໊","໋","໌","ໍ","ྀ","ཱྀ","ྂ","ྃ","྄","྆","྇","ྍ","ྎ",
    "ྏ","ྐ","ྑ","ྒ","ྒྷ","ྔ","ྕ","ྖ","ྗ","ྙ","ྚ","ྛ","ྜ","ྜྷ","ྞ","ྟ",
    "ྠ","ྡ","ྡྷ","ྣ","ྤ","ྥ","ྦ","ྦྷ","ྨ","ྩ","ྪ","ྫ","ྫྷ","ྭ","ྮ","ྯ",
    "ྰ","ྱ","ྲ","ླ","ྴ","ྵ","ྶ","ྷ","ྸ","ྐྵ","ྺ","ྻ","ྼ","࿆","ႂ","ႅ",
    "ႆ","ႍ","ႝ","ჼ","឴","឵","ិ","ី","ឹ","ឺ","ុ","ូ","ួ","ំ","៉","៊",
    "់","៌","៍","៎","៏","័","៑","្","៓","ៗ","៝","ᢅ","ᢆ","ᢩ","ᪧ","᪰",
    "᪱","᪲","᪳","᪴","᪵","᪶","᪷","᪸","᪹","᪺","᪻","᪼","᪽","᪾","ᪿ","ᫀ",
    "᫁","᫂","᫃","᫄","᫅","᫆","᫇","᫈","᫉","᫊","᫋","ᫌ","ᫍ","ᫎ","ᮀ","ᮁ",
    "ᮢ","ᮣ","ᮤ","ᮥ","ᮨ","ᮩ","᮫","ᮬ","ᮭ","᯦","ᯨ","ᯩ","ᯭ","ᯯ","ᯰ","ᯱ",
    "᳐","᳑","᳒","᳔","᳕","᳖","᳗","᳘","᳙","᳚","᳛","᳜","᳝","᳞","᳟","᳠",
    "᳢","᳣","᳤","᳥","᳦","᳧","᳨","᳭","᳴","᳸","᳹","ᶛ","ᶜ","ᶝ","ᶞ","ᶟ",
    "ᶠ","ᶡ","ᶢ","ᶣ","ᶤ","ᶥ","ᶦ","ᶧ","ᶨ","ᶩ","ᶪ","ᶫ","ᶬ","ᶭ","ᶮ","ᶯ",
    "ᶰ","ᶱ","ᶲ","ᶳ","ᶴ","ᶵ","ᶶ","ᶷ","ᶸ","ᶹ","ᶺ","ᶻ","ᶼ","ᶽ","ᶾ","ᶿ",
    "᷀","᷁","᷂","᷃","᷄","᷅","᷆","᷇","᷈","᷉","᷊","᷋","᷌","᷍","᷎","᷏",
    "᷐","᷑","᷒","ᷓ","ᷔ","ᷕ","ᷖ","ᷗ","ᷘ","ᷙ","ᷚ","ᷛ","ᷜ","ᷝ","ᷞ","ᷟ",
    "ᷠ","ᷡ","ᷢ","ᷣ","ᷤ","ᷥ","ᷦ","ᷧ","ᷨ","ᷩ","ᷪ","ᷫ","ᷬ","ᷭ","ᷮ","ᷯ",
    "ᷰ","ᷱ","ᷲ","ᷳ","ᷴ","᷵","᷶","᷷","᷸","᷹","᷺","᷻","᷼","᷽","᷾","᷿",
    "᾽","᾿","῀","῁","῍","῎","῏","῝","῞","῟","῭","΅","`","´","῾","ₐ",
    "ₑ","ₒ","ₓ","ₔ","ₕ","ₖ","ₗ","ₘ","ₙ","ₚ","ₛ","ₜ","⃐","⃑","⃒","⃓",
    "⃔","⃕","⃖","⃗","⃘","⃙","⃚","⃛","⃜","⃝","⃞","⃟","⃠","⃡","⃢","⃣",
    "⃤","⃥","⃦","⃧","⃨","⃩","⃪","⃫","⃬","⃭","⃮","⃯","⃰","⳯","⳰","⳱",
    "ⷠ","ⷡ","ⷢ","ⷣ","ⷤ","ⷥ","ⷦ","ⷧ","ⷨ","ⷩ","ⷪ","ⷫ","ⷬ","ⷭ","ⷮ","ⷯ",
    "ⷰ","ⷱ","ⷲ","ⷳ","ⷴ","ⷵ","ⷶ","ⷷ","ⷸ","ⷹ","ⷺ","ⷻ","ⷼ","ⷽ","ⷾ","ⷿ",
    "゙","゚","゛","゜","ゝ","ゞ","ー","ヽ","ヾ","ꓸ","ꓹ","ꓺ","ꓻ","ꓼ","ꓽ","ꚜ",
    "ꚝ","ꚞ","ꚟ","꛰","꛱","ꞈ","꞉","꞊","ꟲ","ꟳ","ꟴ","ꟸ","ꟹ","꣄","ꣅ","꣠",
    "꣡","꣢","꣣","꣤","꣥","꣦","꣧","꣨","꣩","꣪","꣫","꣬","꣭","꣮","꣯","꣰",
    "꣱","ꣿ","ꦀ","ꦁ","ꦂ","꦳","ꦶ","ꦷ","ꦸ","ꦹ","ꦼ","ꦽ","ꧏ","ꧥ","ꧦ","ꪰ",
    "ꪲ","ꪳ","ꪴ","ꪷ","ꪸ","ꪾ","꪿","꫁","ꫝ","ꫬ","ꫭ","ꫳ","ꫴ","꫶","ꯥ","ꯨ",
    "꯭","﮲","﮳","﮴","﮵","﮶","﮷","﮸","﮹","﮺","﮻","﮼","﮽","﮾","﮿","﯀",
    "﯁","﯂","﻿","ﾞ","ﾟ","￣","￹","￺","￻">>

CaseIgnorable == {CaseIgnorableChars[i] : i \in 1..Len(CaseIgnorableChars)}

\* the lower-case form of the capital sigma at place i of s: the final sigma
\* when a cased character stands before it and none after it, the
\* case-ignorable characters in between skipped
LowerSigma(s, i) ==
    LET before == {j \in 1..(i - 1) : s[j] \notin CaseIgnorable}
        after == {j \in (i + 1)..Len(s) : s[j] \notin CaseIgnorable}
        last == CHOOSE j \in before : \A k \in before : k <= j
        first == CHOOSE j \in after : \A k \in after : j <= k
    IN  IF /\ before # {} /\ s[last] \in Cased
           /\ (after = {} \/ s[first] \notin Cased)
        THEN "ς" ELSE "σ"

\* str.lower()
Lower(s) ==
    <<>> \o [i \in 1..Len(s) |-> IF s[i] = "Σ" THEN LowerSigma(s, i) ELSE LowerChar(s[i])]

\* the folding of re.IGNORECASE: every character by itself
FoldText(s) == <<>> \o [i \in 1..Len(s) |-> LowerChar(s[i])]

IsAlpha(c) == c \in AsciiUpperSet \/ c \in AsciiLowerSet

\* membership of character c in the class named cls
InClass(cls, c) ==
    CASE cls = "s"       -> c \in Whitespace                    \* \s
      [] cls = "d"       -> c \in DecimalDigits                 \* \d
      [] cls = "dot"     -> c # "\n"                            \* .
      [] cls = "alpha"   -> IsAlpha(c)                          \* [a-zA-Z], [A-Z] under IGNORECASE
      [] cls = "nonlnum" -> ~(c \in AsciiLowerSet \/ c \in AsciiDigits)   \* [^a-z0-9]
      [] OTHER           -> FALSE

(***************************************************************************)
(* Regular expression syntax trees.  Every node has the same three fields. *)
(***************************************************************************)
Lit(s)      == [t |-> "lit",   cs |-> s,       kids |-> <<>>]
OneOf(s)    == [t |-> "set",   cs |-> s,       kids |-> <<>>]
Cls(c)      == [t |-> "cls",   cs |-> <<c>>,   kids |-> <<>>]
Cat(ks)     == [t |-> "cat",   cs |-> <<>>,    kids |-> ks]
Alt(ks)     == [t |-> "alt",   cs |-> <<>>,    kids |-> ks]
Opt(k)      == [t |-> "opt",   cs |-> <<>>,    kids |-> <<k>>]
Star(k)     == [t |-> "star",  cs |-> <<>>,    kids |-> <<k>>]
Plus(k)     == [t |-> "plus",  cs |-> <<>>,    kids |-> <<k>>]
LazyPlus(k) == [t |-> "lazy",  cs |-> <<>>,    kids |-> <<k>>]
Group(k)    == [t |-> "group", cs |-> <<>>,    kids |-> <<k>>]
AtEnd       == [t |-> "end",   cs |-> <<>>,    kids |-> <<>>]

\* re.IGNORECASE: the pattern's literals are folded to lower case, and so is
\* the text it is matched against (FoldText)
RECURSIVE FoldKids(_, _)
RECURSIVE Fold(_)
Fold(n) == [t |-> n.t,
            cs |-> IF n.t \in {"lit", "set"} THEN FoldText(n.cs) ELSE n.cs,
            kids |-> FoldKids(n.kids, 1)]

FoldKids(ks, i) == IF i > Len(ks) THEN <<>> ELSE <<Fold(ks[i])>> \o FoldKids(ks, i + 1)

(***************************************************************************)
(* The matcher.  A match state is the position of the next character and   *)
(* the span of capture group 1.  M(n, T, st) is the sequence of states in  *)
(* which node n can leave the text T when entered in st, in the order a    *)
(* backtracking matcher reaches them (greedy quantifiers longest first,    *)
(* lazy ones shortest first, alternatives left to right).                  *)
(***************************************************************************)
St(p, gs, ge) == [pos |-> p, gs |-> gs, ge |-> ge]

\* the end of the longest run of characters of class cls that starts at
\* position pos of T (pos itself when there is none)
RunEnd(cls, T, pos) ==
    LET stops == {i \in pos..Len(T) : ~InClass(cls, T[i])}
    IN  IF stops = {} THEN Len(T) + 1
        ELSE CHOOSE i \in stops : \A j \in stops : i <= j

\* the states after a run of a class that may stop at from..to, the longest
\* run first (a greedy quantifier) or the shortest first (a lazy one)
RunStates(st, from, to, greedy) ==
    <<>> \o [i \in 1..(to - from + 1) |->
                St(IF greedy THEN to - i + 1 ELSE from + i - 1, st.gs, st.ge)]

RECURSIVE M(_, _, _)
RECURSIVE MAll(_, _, _, _, _)
RECURSIVE MCat(_, _, _, _)
RECURSIVE MAlt(_, _, _, _)
RECURSIVE MStar(_, _, _)
RECURSIVE MStarAll(_, _, _, _)

\* the states after n entered in each of sts[lo..hi], in order
MAll(n, T, sts, lo, hi) ==
    IF lo > hi THEN <<>>
    ELSE IF lo = hi THEN M(n, T, sts[lo])
    ELSE LET mid == (lo + hi) \div 2
         IN  MAll(n, T, sts, lo, mid) \o MAll(n, T, sts, mid + 1, hi)

MCat(ks, i, T, sts) ==
    IF i > Len(ks) \/ sts = <<>> THEN sts
    ELSE MCat(ks, i + 1, T, MAll(ks[i], T, sts, 1, Len(sts)))

MAlt(ks, i, T, st) ==
    IF i > Len(ks) THEN <<>> ELSE M(ks[i], T, st) \o MAlt(ks, i + 1, T, st)

\* a greedy repetition of a node that is no character class: the states of
\* sts that consumed text since position p, each continued
MStarAll(n, T, p, sts) ==
    IF sts = <<>> THEN <<>>
    ELSE (IF Head(sts).pos > p THEN MStar(n, T, Head(sts)) ELSE <<>>)
         \o MStarAll(n, T, p, Tail(sts))

MStar(n, T, st) == MStarAll(n, T, st.pos, M(n, T, st)) \o <<st>>

M(n, T, st) ==
    CASE n.t = "lit" ->
           IF /\ st.pos + Len(n.cs) - 1 <= Len(T)
              /\ \A i \in 1..Len(n.cs) : T[st.pos + i - 1] = n.cs[i]
           THEN <<St(st.pos + Len(n.cs), st.gs, st.ge)>> ELSE <<>>
      [] n.t = "alt"   -> MAlt(n.kids, 1, T, st)
      [] n.t = "cat"   -> MCat(n.kids, 1, T, <<st>>)
      [] n.t = "set" ->
           IF st.pos <= Len(T) /\ \E i \in 1..Len(n.cs) : T[st.pos] = n.cs[i]
           THEN <<St(st.pos + 1, st.gs, st.ge)>> ELSE <<>>
      [] n.t = "cls" ->
           IF st.pos <= Len(T) /\ InClass(n.cs[1], T[st.pos])
           THEN <<St(st.pos + 1, st.gs, st.ge)>> ELSE <<>>
      [] n.t = "opt"   -> M(n.kids[1], T, st) \o <<st>>
      [] n.t = "star"  ->
           IF n.kids[1].t = "cls"
           THEN RunStates(st, st.pos, RunEnd(n.kids[1].cs[1], T, st.pos), TRUE)
           ELSE MStar(n.kids[1], T, st)
      [] n.t = "plus"  ->
           IF n.kids[1].t = "cls"
           THEN RunStates(st, st.pos + 1, RunEnd(n.kids[1].cs[1], T, st.pos), TRUE)
           ELSE MStarAll(n.kids[1], T, st.pos - 1, M(n.kids[1], T, st))
      [] n.t = "lazy"  ->   \* only ever a class, repeated
           RunStates(st, st.pos + 1, RunEnd(n.kids[1].cs[1], T, st.pos), FALSE)
      [] n.t = "group" ->
           LET inner == M(n.kids[1], T, St(st.pos, st.pos, st.ge))
           IN  <<>> \o [i \in 1..Len(inner) |-> St(inner[i].pos, st.pos, inner[i].pos)]
      [] n.t = "end" ->
           IF st.pos = Len(T) + 1 \/ (st.pos = Len(T) /\ T[st.pos] = "\n")
           THEN <<st>> ELSE <<>>

(***************************************************************************)
(* Compiled patterns.  re.compile keeps, beside the pattern, what a match  *)
(* can start with, and the scan skips the positions where none can.        *)
(* StartSet(n) is a set of characters that holds the first character of    *)
(* every non-empty match of n, or holds "ANY" when n can match the empty   *)
(* text or starts with a character class.                                  *)
(***************************************************************************)
RECURSIVE Nullable(_)
RECURSIVE NullableAll(_, _)
RECURSIVE NullableAny(_, _)
Nullable(n) ==
    CASE n.t = "lit" -> n.cs = <<>>
      [] n.t \in {"set", "cls"} -> FALSE
      [] n.t \in {"opt", "star", "end"} -> TRUE
      [] n.t = "cat" -> NullableAll(n.kids, 1)
      [] n.t = "alt" -> NullableAny(n.kids, 1)
      [] OTHER -> Nullable(n.kids[1])

NullableAll(ks, i) == i > Len(ks) \/ (Nullable(ks[i]) /\ NullableAll(ks, i + 1))

NullableAny(ks, i) == i <= Len(ks) /\ (Nullable(ks[i]) \/ NullableAny(ks, i + 1))

RECURSIVE StartSet(_)
RECURSIVE StartCat(_, _)
RECURSIVE StartAlt(_, _)
StartSet(n) ==
    IF Nullable(n) THEN {"ANY"}
    ELSE CASE n.t = "lit" -> {n.cs[1]}
           [] n.t = "set" -> {n.cs[i] : i \in 1..Len(n.cs)}
           [] n.t = "cls" -> {"ANY"}
           [] n.t = "cat" -> StartCat(n.kids, 1)
           [] n.t = "alt" -> StartAlt(n.kids, 1)
           [] OTHER -> StartSet(n.kids[1])

StartCat(ks, i) ==
    IF i > Len(ks) THEN {"ANY"}
    ELSE IF Nullable(ks[i]) THEN {"ANY"}
    ELSE StartSet(ks[i])

StartAlt(ks, i) ==
    IF i > Len(ks) THEN {} ELSE StartSet(ks[i]) \cup StartAlt(ks, i + 1)

\* re.compile(n), and re.compile(n, re.IGNORECASE)
Compile(n) == [re |-> n, start |-> StartSet(n)]

CompileI(n) == Compile(Fold(n))

\* whether a match of p can start at position pos of T
CanStart(p, T, pos) ==
    "ANY" \in p.start \/ (pos <= Len(T) /\ T[pos] \in p.start)

\* the positions of T, in order, at which a match of p can start
StartPositions(p, T) ==
    SelectSeq(<<>> \o [i \in 1..(Len(T) + 1) |-> i], LAMBDA i : CanStart(p, T, i))

\* the matches of p at position pos of T, the one Python reports first
MatchAt(p, T, pos) == M(p.re, T, St(pos, 0, 0))

\* The scans below walk the positions lo..hi by halves, handing the scan's
\* state from the left half to the right one; a scan that has reached the
\* end of the text skips the right half.

\* re.search(p, T): the first match at the leftmost of the positions
\* at[lo..hi] that has one, as <<state>>, or <<>> when there is none
RECURSIVE SearchOver(_, _, _, _, _)
SearchOver(p, T, at, lo, hi) ==
    IF lo > hi THEN <<>>
    ELSE IF lo = hi
         THEN LET r == MatchAt(p, T, at[lo]) IN IF r = <<>> THEN <<>> ELSE <<r[1]>>
    ELSE LET mid == (lo + hi) \div 2
             left == SearchOver(p, T, at, lo, mid)
         IN  IF left # <<>> THEN left ELSE SearchOver(p, T, at, mid + 1, hi)

\* one step of findall at position a: acc is <<matches so far, position the
\* scan has reached>>
FindallStep(p, T, a, acc) ==
    IF a < acc[2] THEN acc
    ELSE LET r == MatchAt(p, T, a)
         IN  IF r = <<>> THEN acc
             ELSE <<acc[1] + 1, IF r[1].pos > a THEN r[1].pos ELSE a + 1>>

\* len(re.findall(p, T)): the non-overlapping matches, scanning left to right
RECURSIVE FindallOver(_, _, _, _, _, _)
FindallOver(p, T, at, lo, hi, acc) ==
    IF lo > hi THEN acc
    ELSE IF lo = hi THEN FindallStep(p, T, at[lo], acc)
    ELSE LET mid == (lo + hi) \div 2
             left == FindallOver(p, T, at, lo, mid, acc)
         IN  IF left[2] > Len(T) + 1 THEN left
             ELSE FindallOver(p, T, at, mid + 1, hi, left)

\* one step of sub at position a: acc is <<output so far, position the scan
\* has reached>>; p matches no empty text
SubStep(p, repl, T, a, acc) ==
    IF a < acc[2] THEN acc
    ELSE LET r == IF CanStart(p, T, a) THEN MatchAt(p, T, a) ELSE <<>>
         IN  IF r = <<>> \/ r[1].pos = a
             THEN <<acc[1] \o <<T[a]>>, a + 1>>
             ELSE <<acc[1] \o repl, r[1].pos>>

\* re.sub(p, repl, T)
RECURSIVE SubOver(_, _, _, _, _, _)
SubOver(p, repl, T, lo, hi, acc) ==
    IF lo > hi THEN acc
    ELSE IF lo = hi THEN SubStep(p, repl, T, lo, acc)
    ELSE LET mid == (lo + hi) \div 2
             left == SubOver(p, repl, T, lo, mid, acc)
         IN  IF left[2] > Len(T) THEN left
             ELSE SubOver(p, repl, T, mid + 1, hi, left)

\* re.search(p, T) and len(re.findall(p, T)); under re.IGNORECASE p is
\* compiled with CompileI and T is the text folded by FoldText
ReSearch(p, T) ==
    LET at == StartPositions(p, T) IN SearchOver(p, T, at, 1, Len(at))

ReFindall(p, T) ==
    LET at == StartPositions(p, T) IN FindallOver(p, T, at, 1, Len(at), <<0, 1>>)[1]

ReSub(p, repl, T) == SubOver(p, repl, T, 1, Len(T), <<<<>>, 1>>)[1]

(***************************************************************************)
(* ComplexityAnalyzer.PATTERNS: the patterns of each factor, in the order  *)
(* of the dict.  analyze() passes re.IGNORECASE, hence Fold.               *)
(***************************************************************************)
FactorNames == <<"functional_requirements", "integration_points", "ui_components",
                 "database_changes", "external_apis", "authentication_features",
                 "file_operations", "real_time_features">>

Factors == {FactorNames[i] : i \in 1..Len(FactorNames)}

PATTERNS == [
    functional_requirements |-> <<
        \* (?:must|shall|should|will)\s+(?:be able to|allow|enable|support)
        CompileI(Cat(<<Alt(<<Lit(<<"m","u","s","t">>), Lit(<<"s","h","a","l","l">>),
             Lit(<<"s","h","o","u","l","d">>), Lit(<<"w","i","l","l">>)>>),
             Plus(Cls("s")), Alt(<<Lit(<<"b","e"," ","a","b","l","e"," ","t","o">>),
             Lit(<<"a","l","l","o","w">>), Lit(<<"e","n","a","b","l","e">>),
             Lit(<<"s","u","p","p","o","r","t">>)>>)>>)),
        \* FR-\d+
        CompileI(Cat(<<Lit(<<"F","R","-">>), Plus(Cls("d"))>>)),
        \* requirement[s]?\s*:
        CompileI(Cat(<<Lit(<<"r","e","q","u","i","r","e","m","e","n","t">>),
             Opt(OneOf(<<"s">>)), Star(Cls("s")), Lit(<<":">>)>>)),
        \* (?:user|system)\s+(?:can|will|should)
        CompileI(Cat(<<Alt(<<Lit(<<"u","s","e","r">>), Lit(<<"s","y","s","t","e","m">>)>>),
             Plus(Cls("s")), Alt(<<Lit(<<"c","a","n">>), Lit(<<"w","i","l","l">>),
             Lit(<<"s","h","o","u","l","d">>)>>)>>))>>,
    integration_points |-> <<
        \* integrat(?:e|ion|ing)\s+with
        CompileI(Cat(<<Lit(<<"i","n","t","e","g","r","a","t">>), Alt(<<Lit(<<"e">>),
             Lit(<<"i","o","n">>), Lit(<<"i","n","g">>)>>),
             Plus(Cls("s")), Lit(<<"w","i","t","h">>)>>)),
        \* connect(?:s|ing)?\s+to
        CompileI(Cat(<<Lit(<<"c","o","n","n","e","c","t">>), Opt(Alt(<<Lit(<<"s">>),
             Lit(<<"i","n","g">>)>>)), Plus(Cls("s")), Lit(<<"t","o">>)>>)),
        \* (?:third[- ]party|external)\s+(?:service|system|api)
        CompileI(Cat(<<Alt(<<Cat(<<Lit(<<"t","h","i","r","d">>), OneOf(<<"-"," ">>),
             Lit(<<"p","a","r","t","y">>)>>), Lit(<<"e","x","t","e","r","n","a","l">>)>>),
             Plus(Cls("s")), Alt(<<Lit(<<"s","e","r","v","i","c","e">>),
             Lit(<<"s","y","s","t","e","m">>), Lit(<<"a","p","i">>)>>)>>)),
        \* webhook[s]?
        CompileI(Cat(<<Lit(<<"w","e","b","h","o","o","k">>), Opt(OneOf(<<"s">>))>>)),
        \* (?:import|export)\s+(?:from|to)
        CompileI(Cat(<<Alt(<<Lit(<<"i","m","p","o","r","t">>), Lit(<<"e","x","p","o","r","t">>)>>),
             Plus(Cls("s")), Alt(<<Lit(<<"f","r","o","m">>), Lit(<<"t","o">>)>>)>>))>>,
    ui_components |-> <<
        \* (?:button|form|modal|dialog|dropdown|menu|table|list|card|panel)
        CompileI(Alt(<<Lit(<<"b","u","t","t","o","n">>), Lit(<<"f","o","r","m">>),
             Lit(<<"m","o","d","a","l">>), Lit(<<"d","i","a","l","o","g">>),
             Lit(<<"d","r","o","p","d","o","w","n">>), Lit(<<"m","e","n","u">>),
             Lit(<<"t","a","b","l","e">>), Lit(<<"l","i","s","t">>), Lit(<<"c","a","r","d">>),
             Lit(<<"p","a","n","e","l">>)>>)),
        \* (?:page|screen|view|component|widget)
        CompileI(Alt(<<Lit(<<"p","a","g","e">>), Lit(<<"s","c","r","e","e","n">>),
             Lit(<<"v","i","e","w">>), Lit(<<"c","o","m","p","o","n","e","n","t">>),
             Lit(<<"w","i","d","g","e","t">>)>>)),
        \* (?:display|show|render|present)
        CompileI(Alt(<<Lit(<<"d","i","s","p","l","a","y">>), Lit(<<"s","h","o","w">>),
             Lit(<<"r","e","n","d","e","r">>), Lit(<<"p","r","e","s","e","n","t">>)>>)),
        \* UI/UX
        CompileI(Lit(<<"U","I","/","U","X">>)),
        \* (?:click|tap|hover|drag|drop)
        CompileI(Alt(<<Lit(<<"c","l","i","c","k">>), Lit(<<"t","a","p">>),
             Lit(<<"h","o","v","e","r">>), Lit(<<"d","r","a","g">>),
             Lit(<<"d","r","o","p">>)>>))>>,
    database_changes |-> <<
        \* (?:database|db|schema|table|column|field|migration)
        CompileI(Alt(<<Lit(<<"d","a","t","a","b","a","s","e">>), Lit(<<"d","b">>),
             Lit(<<"s","c","h","e","m","a">>), Lit(<<"t","a","b","l","e">>),
             Lit(<<"c","o","l","u","m","n">>), Lit(<<"f","i","e","l","d">>),
             Lit(<<"m","i","g","r","a","t","i","o","n">>)>>)),
        \* (?:create|update|delete|insert)\s+(?:table|record|row)
        CompileI(Cat(<<Alt(<<Lit(<<"c","r","e","a","t","e">>), Lit(<<"u","p","d","a","t","e">>),
             Lit(<<"d","e","l","e","t","e">>), Lit(<<"i","n","s","e","r","t">>)>>),
             Plus(Cls("s")), Alt(<<Lit(<<"t","a","b","l","e">>),
             Lit(<<"r","e","c","o","r","d">>), Lit(<<"r","o","w">>)>>)>>)),
        \* (?:sql|query|index)
        CompileI(Alt(<<Lit(<<"s","q","l">>), Lit(<<"q","u","e","r","y">>),
             Lit(<<"i","n","d","e","x">>)>>)),
        \* (?:foreign key|primary key|constraint)
        CompileI(Alt(<<Lit(<<"f","o","r","e","i","g","n"," ","k","e","y">>),
             Lit(<<"p","r","i","m","a","r","y"," ","k","e","y">>),
             Lit(<<"c","o","n","s","t","r","a","i","n","t">>)>>))>>,
    external_apis |-> <<
        \* (?:api|endpoint|rest|graphql|grpc)
        CompileI(Alt(<<Lit(<<"a","p","i">>), Lit(<<"e","n","d","p","o","i","n","t">>),
             Lit(<<"r","e","s","t">>), Lit(<<"g","r","a","p","h","q","l">>),
             Lit(<<"g","r","p","c">>)>>)),
        \* (?:http|https)\s*://
        CompileI(Cat(<<Alt(<<Lit(<<"h","t","t","p">>), Lit(<<"h","t","t","p","s">>)>>),
             Star(Cls("s")), Lit(<<":","/","/">>)>>)),
        \* (?:get|post|put|patch|delete)\s+(?:request|endpoint)
        CompileI(Cat(<<Alt(<<Lit(<<"g","e","t">>), Lit(<<"p","o","s","t">>), Lit(<<"p","u","t">>),
             Lit(<<"p","a","t","c","h">>), Lit(<<"d","e","l","e","t","e">>)>>),
             Plus(Cls("s")), Alt(<<Lit(<<"r","e","q","u","e","s","t">>),
             Lit(<<"e","n","d","p","o","i","n","t">>)>>)>>)),
        \* (?:oauth|api[- ]key|token)
        CompileI(Alt(<<Lit(<<"o","a","u","t","h">>), Cat(<<Lit(<<"a","p","i">>),
             OneOf(<<"-"," ">>), Lit(<<"k","e","y">>)>>), Lit(<<"t","o","k","e","n">>)>>))>>,
    authentication_features |-> <<
        \* (?:auth|login|logout|signin|signout|signup)
        CompileI(Alt(<<Lit(<<"a","u","t","h">>), Lit(<<"l","o","g","i","n">>),
             Lit(<<"l","o","g","o","u","t">>), Lit(<<"s","i","g","n","i","n">>),
             Lit(<<"s","i","g","n","o","u","t">>), Lit(<<"s","i","g","n","u","p">>)>>)),
        \* (?:password|credential|session|jwt|token)
        CompileI(Alt(<<Lit(<<"p","a","s","s","w","o","r","d">>),
             Lit(<<"c","r","e","d","e","n","t","i","a","l">>),
             Lit(<<"s","e","s","s","i","o","n">>), Lit(<<"j","w","t">>),
             Lit(<<"t","o","k","e","n">>)>>)),
        \* (?:permission|role|access control|rbac)
        CompileI(Alt(<<Lit(<<"p","e","r","m","i","s","s","i","o","n">>), Lit(<<"r","o","l","e">>),
             Lit(<<"a","c","c","e","s","s"," ","c","o","n","t","r","o","l">>),
             Lit(<<"r","b","a","c">>)>>)),
        \* (?:mfa|2fa|two[- ]factor)
        CompileI(Alt(<<Lit(<<"m","f","a">>), Lit(<<"2","f","a">>), Cat(<<Lit(<<"t","w","o">>),
             OneOf(<<"-"," ">>), Lit(<<"f","a","c","t","o","r">>)>>)>>))>>,
    file_operations |-> <<
        \* (?:upload|download|file|attachment|document)
        CompileI(Alt(<<Lit(<<"u","p","l","o","a","d">>), Lit(<<"d","o","w","n","l","o","a","d">>),
             Lit(<<"f","i","l","e">>), Lit(<<"a","t","t","a","c","h","m","e","n","t">>),
             Lit(<<"d","o","c","u","m","e","n","t">>)>>)),
        \* (?:storage|s3|blob|bucket)
        CompileI(Alt(<<Lit(<<"s","t","o","r","a","g","e">>), Lit(<<"s","3">>),
             Lit(<<"b","l","o","b">>), Lit(<<"b","u","c","k","e","t">>)>>)),
        \* (?:image|video|audio|media)
        CompileI(Alt(<<Lit(<<"i","m","a","g","e">>), Lit(<<"v","i","d","e","o">>),
             Lit(<<"a","u","d","i","o">>), Lit(<<"m","e","d","i","a">>)>>))>>,
    real_time_features |-> <<
        \* (?:real[- ]time|live|streaming|websocket)
        CompileI(Alt(<<Cat(<<Lit(<<"r","e","a","l">>), OneOf(<<"-"," ">>),
             Lit(<<"t","i","m","e">>)>>), Lit(<<"l","i","v","e">>),
             Lit(<<"s","t","r","e","a","m","i","n","g">>),
             Lit(<<"w","e","b","s","o","c","k","e","t">>)>>)),
        \* (?:notification|push|alert)
        CompileI(Alt(<<Lit(<<"n","o","t","i","f","i","c","a","t","i","o","n">>),
             Lit(<<"p","u","s","h">>), Lit(<<"a","l","e","r","t">>)>>)),
        \* (?:sync|synchroniz)
        CompileI(Alt(<<Lit(<<"s","y","n","c">>), Lit(<<"s","y","n","c","h","r","o","n","i","z">>)>>))>>]

(***************************************************************************)
(* ComplexityFactors.  A score is kept in hundredths (an integer): the     *)
(* weights are multiples of 0.5 and the counts integers, so the float sum  *)
(* is exact, and the quotient by 5 is the double nearest to a multiple of  *)
(* 0.1, which compares with 5, 15 and 30 as that multiple does.            *)
(***************************************************************************)
Cap == 20

\* ComplexityFactors(...): the record whose field k is counts[k]
MakeFactors(counts) ==
    [functional_requirements |-> counts["functional_requirements"],
     integration_points      |-> counts["integration_points"],
     ui_components           |-> counts["ui_components"],
     database_changes        |-> counts["database_changes"],
     external_apis           |-> counts["external_apis"],
     authentication_features |-> counts["authentication_features"],
     file_operations         |-> counts["file_operations"],
     real_time_features      |-> counts["real_time_features"]]

\* ComplexityFactors(): the dataclass defaults
NewFactors == MakeFactors([k \in Factors |-> 0])

\* calculate_score with the weight of ui_components taken as 1 instead of 1.5
calculate_score_ui_weight_1(f) ==
    ( f["functional_requirements"] * 200
    + f["integration_points"] * 300
    + f["ui_components"] * 100
    + f["database_changes"] * 200
    + f["external_apis"] * 300
    + f["authentication_features"] * 400
    + f["file_operations"] * 150
    + f["real_time_features"] * 300 ) \div 5

\* calculate_score(self), in hundredths
calculate_score(f) ==
    ( f["functional_requirements"] * 200
    + f["integration_points"] * 300
    + f["ui_components"] * 150
    + f["database_changes"] * 200
    + f["external_apis"] * 300
    + f["authentication_features"] * 400
    + f["file_operations"] * 150
    + f["real_time_features"] * 300 ) \div 5

\* get_category with < in the place of <=
get_category_strict(f) ==
    LET score == calculate_score(f)
    IN  IF score < 500 THEN "simple"
        ELSE IF score < 1500 THEN "medium"
        ELSE IF score < 3000 THEN "complex"
        ELSE "enterprise"

\* get_category(self): the score in hundredths against 5, 15 and 30
get_category(f) ==
    LET score == calculate_score(f)
    IN  IF score <= 500 THEN "simple"
        ELSE IF score <= 1500 THEN "medium"
        ELSE IF score <= 3000 THEN "complex"
        ELSE "enterprise"

\* get_story_count_range with the key of the last entry misspelt, so that the
\* category "enterprise" is not found in the table
get_story_count_range_misspelt_key(f) ==
    LET category == get_category(f)
        ranges == [simple |-> <<3, 5>>, medium |-> <<6, 12>>,
                   complex |-> <<13, 25>>, entreprise |-> <<26, 50>>]
    IN  IF category \in DOMAIN ranges THEN ranges[category] ELSE <<6, 12>>

get_story_count_range(f) ==
    LET category == get_category(f)
        ranges == [simple |-> <<3, 5>>, medium |-> <<6, 12>>,
                   complex |-> <<13, 25>>, enterprise |-> <<26, 50>>]
    IN  IF category \in DOMAIN ranges THEN ranges[category] ELSE <<6, 12>>

\* get_iteration_estimate with round() in the place of int(): a half goes to
\* the even neighbour
get_iteration_estimate_rounded(f) ==
    LET r == get_story_count_range(f)
        q == (r[2] * 15) \div 10
    IN  <<r[1], IF (r[2] * 15) % 10 = 5 /\ q % 2 = 1 THEN q + 1 ELSE q>>

\* int(max_stories * 1.5): the product is exact, int() truncates
get_iteration_estimate(f) ==
    LET r == get_story_count_range(f)
    IN  <<r[1], (r[2] * 15) \div 10>>

\* round(score, 1) of a score in hundredths: to the nearest tenth, a tie to
\* the even tenth
Round1(s) ==
    LET r == s % 10
        down == s - r
    IN  IF r < 5 THEN down
        ELSE IF r > 5 THEN down + 10
        ELSE IF (down \div 10) % 2 = 0 THEN down ELSE down + 10

\* str(n) of a natural number
RECURSIVE IntToStr(_)
IntToStr(n) ==
    LET d == <<"0","1","2","3","4","5","6","7","8","9">>[(n % 10) + 1]
    IN  IF n < 10 THEN <<d>> ELSE IntToStr(n \div 10) \o <<d>>

\* f"{lo}-{hi}"
FormatRange(r) == IntToStr(r[1]) \o <<"-">> \o IntToStr(r[2])

(***************************************************************************)
(* ComplexityAnalyzer.  None is NoneText; a given text t is SomeText(t).   *)
(***************************************************************************)
NoneText == [none |-> TRUE, text |-> <<>>]

SomeText(t) == [none |-> FALSE, text |-> t]

\* __init__: the analyzer's content, arch_content and combined_content
AnalyzerInit(content, arch_content) ==
    LET c == Lower(content)
        a == Lower(IF arch_content.none \/ arch_content.text = <<>>
                   THEN <<>> ELSE arch_content.text)
    IN  [content |-> c, arch_content |-> a, combined_content |-> c \o <<"\n">> \o a]

\* the inner loop of analyze(): the matches of the patterns i.. of one factor
\* in the text, folded as re.IGNORECASE folds it
RECURSIVE CountPatterns(_, _, _)
CountPatterns(patterns, i, text) ==
    IF i > Len(patterns) THEN 0
    ELSE ReFindall(patterns[i], text) + CountPatterns(patterns, i + 1, text)

\* RawCounts over self.content alone: the architecture text is not searched
RawCounts_content_only(self) ==
    LET folded == FoldText(self.content)
    IN  MakeFactors([k \in Factors |-> CountPatterns(PATTERNS[k], 1, folded)])

\* the value of count when the inner loop of analyze() ends, per factor
RawCounts(self) ==
    LET folded == FoldText(self.combined_content)
    IN  MakeFactors([k \in Factors |-> CountPatterns(PATTERNS[k], 1, folded)])

Min(a, b) == IF a <= b THEN a ELSE b

\* Clamp without the cap
Clamp_no_cap(count) == count

\* Clamp with max() in the place of min()
Clamp_max(count) == IF count >= Cap THEN count ELSE Cap

\* Clamp that wraps around past the cap instead of saturating
Clamp_wrap(count) == count % (Cap + 1)

\* setattr(factors, factor_name, min(count, 20))
Clamp(count) == Min(count, Cap)

ClampAll(counts) == MakeFactors([k \in Factors |-> Clamp(counts[k])])

analyze(self) == ClampAll(RawCounts(self))

\* str.strip() and str.strip(chars)
RECURSIVE LStrip(_, _)
LStrip(s, chars) ==
    IF s # <<>> /\ Head(s) \in chars THEN LStrip(Tail(s), chars) ELSE s

RECURSIVE RStrip(_, _)
RStrip(s, chars) ==
    IF s # <<>> /\ s[Len(s)] \in chars THEN RStrip(SubSeq(s, 1, Len(s) - 1), chars) ELSE s

Strip(s, chars) == RStrip(LStrip(s, chars), chars)

\* match.group(1)
Group1(T, m) == SubSeq(T, m.gs, m.ge - 1)

title_patterns == <<
    \* #\s*(?:PRD|Feature|Product Requirements):\s*(.+)
    CompileI(Cat(<<Lit(<<"#">>), Star(Cls("s")), Alt(<<Lit(<<"P","R","D">>), Lit(<<"F","e","a","t","u","r","e">>), Lit(<<"P","r","o","d","u","c","t"," ","R","e","q","u","i","r","e","m","e","n","t","s">>)>>), Lit(<<":">>), Star(Cls("s")), Group(Plus(Cls("dot")))>>)),
    \* #\s*(.+?)(?:\n|$)
    CompileI(Cat(<<Lit(<<"#">>), Star(Cls("s")), Group(LazyPlus(Cls("dot"))), Alt(<<Lit(<<"\n">>), AtEnd>>)>>)),
    \* (?:feature|project):\s*(.+?)(?:\n|$)
    CompileI(Cat(<<Alt(<<Lit(<<"f","e","a","t","u","r","e">>), Lit(<<"p","r","o","j","e","c","t">>)>>), Lit(<<":">>), Star(Cls("s")), Group(LazyPlus(Cls("dot"))), Alt(<<Lit(<<"\n">>), AtEnd>>)>>))>>

\* [^a-z0-9]+
NonAlnumRun == Compile(Plus(Cls("nonlnum")))

\* re.sub(r"[^a-z0-9]+", "-", title.lower()).strip("-")
KebabCase(title) ==
    Strip(ReSub(NonAlnumRun, <<"-">>, Lower(title)), {"-"})

RECURSIVE FeatureNameFrom(_, _)
FeatureNameFrom(self, i) ==
    IF i > Len(title_patterns) THEN <<"f","e","a","t","u","r","e">>
    ELSE LET m == ReSearch(title_patterns[i], FoldText(self.content))
         IN  IF m # <<>>
             THEN KebabCase(Strip(Group1(self.content, m[1]), Whitespace))
             ELSE FeatureNameFrom(self, i + 1)

\* extract_feature_name searching the combined text instead of the PRD text
extract_feature_name_combined(self) ==
    FeatureNameFrom([self EXCEPT !.content = self.combined_content], 1)

extract_feature_name(self) == FeatureNameFrom(self, 1)

project_patterns == <<
    \* project:\s*(.+?)(?:\n|$)
    CompileI(Cat(<<Lit(<<"p","r","o","j","e","c","t",":">>), Star(Cls("s")), Group(LazyPlus(Cls("dot"))), Alt(<<Lit(<<"\n">>), AtEnd>>)>>)),
    \* (?:for|in)\s+(?:the\s+)?([A-Z][a-zA-Z]+(?:\s+[A-Z][a-zA-Z]+)*)\s+(?:project|app|application)
    CompileI(Cat(<<Alt(<<Lit(<<"f","o","r">>), Lit(<<"i","n">>)>>), Plus(Cls("s")), Opt(Cat(<<Lit(<<"t","h","e">>), Plus(Cls("s"))>>)), Group(Cat(<<Cls("alpha"), Plus(Cls("alpha")), Star(Cat(<<Plus(Cls("s")), Cls("alpha"), Plus(Cls("alpha"))>>))>>)), Plus(Cls("s")), Alt(<<Lit(<<"p","r","o","j","e","c","t">>), Lit(<<"a","p","p">>), Lit(<<"a","p","p","l","i","c","a","t","i","o","n">>)>>)>>))>>

RECURSIVE ProjectNameFrom(_, _)
ProjectNameFrom(self, i) ==
    IF i > Len(project_patterns) THEN <<"P","r","o","j","e","c","t">>
    ELSE LET m == ReSearch(project_patterns[i], FoldText(self.content))
         IN  IF m # <<>>
             THEN Strip(Group1(self.content, m[1]), Whitespace)
             ELSE ProjectNameFrom(self, i + 1)

extract_project_name(self) == ProjectNameFrom(self, 1)

\* str.replace("-", " ")
ReplaceDash(s) == <<>> \o [i \in 1..Len(s) |-> IF s[i] = "-" THEN " " ELSE s[i]]

\* str.title(): a letter after a letter is lowered, any other letter raised
Title(s) ==
    <<>> \o [i \in 1..Len(s) |->
        IF i > 1 /\ IsAlpha(s[i - 1]) THEN LowerChar(s[i]) ELSE UpperChar(s[i])]

\* the "complexity" object of the record generate_prd_json builds
ComplexityRecord(factors) ==
    [score |-> Round1(calculate_score(factors)),
     category |-> get_category(factors),
     estimated_stories |-> FormatRange(get_story_count_range(factors)),
     estimated_iterations |-> FormatRange(get_iteration_estimate(factors)),
     factors |-> factors]

\* generate_prd_json(content, arch_content, output_path), without the
\* timestamp (the clock is not modelled)
generate_prd_json(content, arch_content) ==
    LET analyzer == AnalyzerInit(content, arch_content)
        factors == analyze(analyzer)
        feature_name == extract_feature_name(analyzer)
        project_name == extract_project_name(analyzer)
    IN  [project |-> project_name,
         branchName |-> <<"r","a","l","p","h","/">> \o feature_name,
         description |-> Title(ReplaceDash(feature_name)) \o <<" ","F","e","a","t","u","r","e">>,
         complexity |-> ComplexityRecord(factors),
         userStories |-> <<>>]

\* the values print_analysis(factors) computes (lines 255-258) and prints, as
\* they are before formatting
print_analysis(factors) ==
    [score |-> calculate_score(factors),
     category |-> get_category(factors),
     stories |-> get_story_count_range(factors),
     iterations |-> get_iteration_estimate(factors),
     factors |-> factors]

(***************************************************************************)
(* The documents main() is run on.  A file holds a sequence of pieces from *)
(* a small vocabulary, written one after the other:                        *)
(*   1  "# My Great Feature\n"       a first-level heading                 *)
(*   2  "# PRD: (Live -- Login API!)\n"                                     *)
(*                                   a labelled heading; its title begins  *)
(*                                   and ends with a character the slug    *)
(*                                   drops and holds a run of three        *)
(*   3  "Feature: File\n"            an inline label                       *)
(*   4  "FR-1 webhook create "       ends with the first word of a pattern *)
(*   5  "table token ", "db" ten times and " "                             *)
(*                                   words that several factors look for;  *)
(*                                   two of them pass the cap of a factor  *)
(***************************************************************************)
Pieces == <<
    <<"#"," ","M","y"," ","G","r","e","a","t"," ","F","e","a","t","u","r","e","\n">>,
    <<"#"," ","P","R","D",":"," ","(","L","i","v","e"," ","-","-"," ","L","o","g","i","n"," ","A","P","I","!",")","\n">>,
    <<"F","e","a","t","u","r","e",":"," ","F","i","l","e","\n">>,
    <<"F","R","-","1"," ","w","e","b","h","o","o","k"," ","c","r","e","a","t","e"," ">>,
    <<"t","a","b","l","e"," ","t","o","k","e","n"," ","d","b","d","b","d","b","d","b","d","b","d","b","d","b","d","b","d","b","d","b"," ">>>>

PieceIds == 1..Len(Pieces)

\* the pieces an architecture file is made of
ArchPieceIds == {2, 5}

\* the most pieces the two files hold together
MaxPieces == 3

\* Path.read_text(): the text of a file holding the pieces of doc
RECURSIVE DocText(_)
DocText(doc) == IF doc = <<>> THEN <<>> ELSE Pieces[Head(doc)] \o DocText(Tail(doc))

\* a path names a file that can be read, no file, one read_text() fails on
\* (a directory, bytes that are not UTF-8, no permission), or it is a path
\* exists() raises on: stat() fails with an error that does not stand for an
\* absent file (a name too long, a directory that may not be searched)
FileStatus == {"ok", "missing", "unreadable", "inaccessible"}

(***************************************************************************)
(* The state.  prd_* and arch_* are the files and the command line;  pc is *)
(* the position in main() ("exit1" after sys.exit(1), "raised" after an    *)
(* uncaught exception); content, arch_content and factors are main()'s     *)
(* locals; printed is what print_analysis printed, written the record      *)
(* written to the output path, complexity the emitted "complexity" object. *)
(* Between two runs a file is edited: edited is the file the last piece    *)
(* was appended to, base what the run before it printed.  An absent value  *)
(* is <<>>, a present one a one-element sequence.                          *)
(***************************************************************************)
VARIABLES prd_status, prd_doc, arch_given, arch_status, arch_doc,
          pc, raised_by, content, arch_content, warned,
          factors, printed, written, complexity, edited, base

files == <<prd_status, prd_doc, arch_given, arch_status, arch_doc>>
locals == <<content, arch_content, warned, factors>>
outputs == <<printed, written, complexity>>
vars == <<files, pc, raised_by, locals, outputs, edited, base>>

\* the state main() starts in
Fresh ==
    /\ pc = "main"
    /\ raised_by = "none"
    /\ content = <<>>
    /\ arch_content = NoneText
    /\ warned = FALSE
    /\ factors = <<>>
    /\ printed = <<>>
    /\ written = <<>>
    /\ complexity = <<>>

Init ==
    /\ prd_status \in FileStatus
    /\ prd_doc = <<>>
    /\ arch_given \in BOOLEAN
    /\ arch_status \in (IF arch_given THEN FileStatus ELSE {"missing"})
    /\ arch_doc = <<>>
    /\ Fresh
    /\ edited = "none"
    /\ base = <<>>

\* what a call of print() does: it writes its text to stdout, or it raises
\* (stdout cannot encode the text, or cannot be written to), and nothing
\* catches it
PrintOutcome == {"printed", "raised"}

\* main(), lines 305-311: the PRD file
ReadPrd ==
    /\ pc = "main"
    /\ IF prd_status = "inaccessible"
       THEN pc' = "raised" /\ raised_by' = "prd_path.exists" /\ UNCHANGED content
       ELSE IF prd_status = "missing"
       THEN /\ \E out \in PrintOutcome :
                  IF out = "printed"
                  THEN pc' = "exit1" /\ UNCHANGED raised_by
                  ELSE pc' = "raised" /\ raised_by' = "print, line 308"
            /\ UNCHANGED content
       ELSE IF prd_status = "unreadable"
       THEN pc' = "raised" /\ raised_by' = "prd_path.read_text" /\ UNCHANGED content
       ELSE pc' = "read_arch" /\ content' = DocText(prd_doc) /\ UNCHANGED raised_by
    /\ UNCHANGED <<files, arch_content, warned, factors, outputs, edited, base>>

\* main(), lines 313-320: the architecture file
ReadArch ==
    /\ pc = "read_arch"
    /\ IF ~arch_given
       THEN pc' = "analyze" /\ UNCHANGED <<raised_by, arch_content, warned>>
       ELSE IF arch_status = "inaccessible"
       THEN /\ pc' = "raised"
            /\ raised_by' = "arch_path.exists"
            /\ UNCHANGED <<arch_content, warned>>
       ELSE IF arch_status = "missing"
       THEN /\ \E out \in PrintOutcome :
                  IF out = "printed"
                  THEN pc' = "analyze" /\ warned' = TRUE /\ UNCHANGED raised_by
                  ELSE pc' = "raised" /\ raised_by' = "print, line 320" /\ UNCHANGED warned
            /\ UNCHANGED arch_content
       ELSE IF arch_status = "unreadable"
       THEN /\ pc' = "raised"
            /\ raised_by' = "arch_path.read_text"
            /\ UNCHANGED <<arch_content, warned>>
       ELSE /\ pc' = "analyze"
            /\ arch_content' = SomeText(DocText(arch_doc))
            /\ UNCHANGED <<raised_by, warned>>
    /\ UNCHANGED <<files, content, factors, outputs, edited, base>>

\* main(), lines 322-328: analyze, print, and return under --analyze-only;
\* printed holds the analysis once print_analysis has printed all of it
Analyze ==
    /\ pc = "analyze"
    /\ factors' = <<analyze(AnalyzerInit(content, arch_content))>>
    /\ \E out \in PrintOutcome :
          IF out = "printed"
          THEN /\ printed' = <<print_analysis(factors'[1])>>
               /\ \E analyze_only \in BOOLEAN :
                     pc' = IF analyze_only THEN "done" ELSE "generate"
               /\ UNCHANGED raised_by
          ELSE /\ pc' = "raised"
               /\ raised_by' = "print_analysis"
               /\ UNCHANGED printed
    /\ UNCHANGED <<files, content, arch_content, warned, written, complexity, edited, base>>

\* what output_path is when line 334 writes to it: a path write_text can
\* write, or one it cannot (its directory is missing, it names a directory,
\* it may not be written)
OutStatus == {"ok", "unwritable"}

\* main(), lines 330-336: generate the record, write it, print the output
\* path and then the note; write_text raises on a path it cannot write, each
\* of the two prints may raise, and nothing catches it
Generate ==
    /\ pc = "generate"
    /\ \E out_status \in OutStatus :
          IF out_status = "ok"
          THEN /\ written' = <<generate_prd_json(content, arch_content)>>
               /\ complexity' = <<written'[1].complexity>>
               /\ \E out \in PrintOutcome, note \in PrintOutcome :
                     IF out = "raised"
                     THEN pc' = "raised" /\ raised_by' = "print, line 335"
                     ELSE IF note = "raised"
                     THEN pc' = "raised" /\ raised_by' = "print, line 336"
                     ELSE pc' = "done" /\ UNCHANGED raised_by
          ELSE /\ pc' = "raised"
               /\ raised_by' = "output_path.write_text"
               /\ UNCHANGED <<written, complexity>>
    /\ UNCHANGED <<files, locals, printed, edited, base>>

\* the start of another run; what the run before printed is kept in base
Rerun ==
    /\ pc' = "main"
    /\ raised_by' = "none"
    /\ content' = <<>>
    /\ arch_content' = NoneText
    /\ warned' = FALSE
    /\ factors' = <<>>
    /\ printed' = <<>>
    /\ written' = <<>>
    /\ complexity' = <<>>
    /\ base' = printed

\* between two runs, piece p is appended to the PRD file
AppendPrd(p) ==
    /\ pc = "done"
    /\ Len(prd_doc) + Len(arch_doc) < MaxPieces
    /\ prd_doc' = Append(prd_doc, p)
    /\ edited' = "prd"
    /\ UNCHANGED <<prd_status, arch_given, arch_status, arch_doc>>
    /\ Rerun

\* between two runs, piece p is appended to the architecture file
AppendArch(p) ==
    /\ pc = "done"
    /\ arch_given /\ arch_status = "ok"
    /\ Len(prd_doc) + Len(arch_doc) < MaxPieces
    /\ arch_doc' = Append(arch_doc, p)
    /\ edited' = "arch"
    /\ UNCHANGED <<prd_status, prd_doc, arch_given, arch_status>>
    /\ Rerun

Next ==
    \/ ReadPrd
    \/ ReadArch
    \/ Analyze
    \/ Generate
    \/ \E p \in PieceIds : AppendPrd(p)
    \/ \E p \in ArchPieceIds : AppendArch(p)

Spec == Init /\ [][Next]_vars

(***************************************************************************)
(* The methods of ComplexityFactors on factor counts of the whole range:   *)
(* every factor holds a background count, but for at most MaxRaised        *)
(* factors, which hold another count.                                      *)
(***************************************************************************)
MaxRaised == 2

InitF ==
    /\ \E background \in 0..Cap, other \in 0..Cap, raised \in SUBSET Factors :
          /\ Cardinality(raised) <= MaxRaised
          /\ factors = <<MakeFactors([k \in Factors |-> IF k \in raised THEN other ELSE background])>>
    /\ pc = "scored"
    /\ raised_by = "none"
    /\ prd_status = "ok" /\ prd_doc = <<>>
    /\ arch_given = FALSE /\ arch_status = "missing" /\ arch_doc = <<>>
    /\ content = <<>> /\ arch_content = NoneText /\ warned = FALSE
    /\ printed = <<>> /\ written = <<>> /\ complexity = <<>>
    /\ edited = "none" /\ base = <<>>

\* print_analysis(factors), lines 253-279
PrintAnalysis ==
    /\ pc = "scored"
    /\ \E out \in PrintOutcome :
          IF out = "printed"
          THEN /\ printed' = <<print_analysis(factors[1])>>
               /\ pc' = "printed"
               /\ UNCHANGED raised_by
          ELSE /\ pc' = "raised"
               /\ raised_by' = "print_analysis"
               /\ UNCHANGED printed
    /\ UNCHANGED <<files, locals, written, complexity, edited, base>>

\* the "complexity" object of generate_prd_json, lines 227-242
EmitComplexity ==
    /\ pc = "printed"
    /\ complexity' = <<ComplexityRecord(factors[1])>>
    /\ pc' = "emitted"
    /\ UNCHANGED <<files, raised_by, locals, printed, written, edited, base>>

NextF == PrintAnalysis \/ EmitComplexity

SpecF == InitF /\ [][NextF]_vars

(***************************************************************************)
(* What the runs are compared with.                                        *)
(*                                                                         *)
(* PieceOccurrences[p] is the number of matches each factor's patterns     *)
(* have in piece p alone.  Pieces written one after the other, or one on   *)
(* each side of the line break between the PRD and the architecture text,  *)
(* add one match only where piece 4 is followed by piece 5: "create" and   *)
(* "table" then form a match of the second database pattern.               *)
(***************************************************************************)
Occ(fr, ip, ui, db, api, auth, file, rt) ==
    [functional_requirements |-> fr, integration_points |-> ip,
     ui_components |-> ui, database_changes |-> db, external_apis |-> api,
     authentication_features |-> auth, file_operations |-> file,
     real_time_features |-> rt]

PieceOccurrences == <<
    Occ(0, 0, 0, 0, 0, 0, 0, 0),
    Occ(0, 0, 0, 0, 1, 1, 0, 1),
    Occ(0, 0, 0, 0, 0, 0, 1, 0),
    Occ(1, 1, 0, 0, 0, 0, 0, 0),
    Occ(0, 0, 1, 11, 1, 1, 0, 0)>>

RECURSIVE SumOccurrences(_, _)
SumOccurrences(k, doc) ==
    IF doc = <<>> THEN 0 ELSE PieceOccurrences[Head(doc)][k] + SumOccurrences(k, Tail(doc))

\* the matches of factor k's patterns in the PRD pieces, a line break, and
\* the architecture pieces
Occurrences(k) ==
    LET doc == prd_doc \o arch_doc
        joined == {i \in 1..(Len(doc) - 1) : doc[i] = 4 /\ doc[i + 1] = 5}
    IN  SumOccurrences(k, doc)
        + (IF k = "database_changes" THEN Cardinality(joined) ELSE 0)

\* ten times the score
Tenths(f) ==
    4 * f["functional_requirements"] + 6 * f["integration_points"]
    + 3 * f["ui_components"] + 4 * f["database_changes"]
    + 6 * f["external_apis"] + 8 * f["authentication_features"]
    + 3 * f["file_operations"] + 6 * f["real_time_features"]

Rank(category) ==
    CASE category = "simple" -> 1
      [] category = "medium" -> 2
      [] category = "complex" -> 3
      [] category = "enterprise" -> 4
      [] OTHER -> 0

StoryTable ==
    [simple |-> <<3, 5>>, medium |-> <<6, 12>>,
     complex |-> <<13, 25>>, enterprise |-> <<26, 50>>]

IterationHigh == [simple |-> 7, medium |-> 18, complex |-> 37, enterprise |-> 75]

\* the slug of the title the PRD pieces give: that of the labelled heading
\* of piece 2 wherever it stands ("(Live -- Login API!)" lower-cased, its
\* runs " -- " and "!)" collapsed to one "-" each, the "-" for "(" and for
\* "!)" trimmed), else that of the heading of piece 1, else that of the
\* inline label of piece 3, else the fallback
ExpectedName(doc) ==
    LET has(p) == \E i \in 1..Len(doc) : doc[i] = p
    IN  IF has(2) THEN <<"l","i","v","e","-","l","o","g","i","n","-","a","p","i">>
        ELSE IF has(1) THEN <<"m","y","-","g","r","e","a","t","-","f","e","a","t","u","r","e">>
        ELSE IF has(3) THEN <<"f","i","l","e">>
        ELSE <<"f","e","a","t","u","r","e">>

\* the piece appended before this run
AppendedPiece ==
    IF edited = "prd" THEN prd_doc[Len(prd_doc)] ELSE arch_doc[Len(arch_doc)]

\* the piece appended before this run stands at the end of the text analyzed:
\* it went to the architecture file, or to the PRD file while there is no
\* architecture text after it
AppendedAtTheEnd == edited = "arch" \/ (edited = "prd" /\ arch_doc = <<>>)

\* the calls of main() after analyze() that can raise
RaisedAfterAnalyze ==
    {"print_analysis", "output_path.write_text", "print, line 335", "print, line 336"}

\* the calls of main() that put out text or the file: the prints and
\* write_text
RaisedByOutput ==
    {"print, line 308", "print, line 320", "print_analysis",
     "output_path.write_text", "print, line 335", "print, line 336"}

\* this run and the run before the append have both printed their results
Compared == edited # "none" /\ base # <<>> /\ printed # <<>>

\* C1: after analyze(), on any PRD text and any or no architecture text,
\* each of the eight factor counts is an integer from 0 to 20, a factor whose
\* patterns match more than 20 times is recorded as exactly 20, and analyze()
\* has raised no error: the run goes on to print_analysis, and ends in no
\* error but one of the calls of main() that follow (a print that raises,
\* or write_text).
C1_CountsWithinCap ==
    factors # <<>> =>
        /\ pc \in {"generate", "done"} => printed # <<>>
        /\ pc # "exit1"
        /\ pc = "raised" => raised_by \in RaisedAfterAnalyze
        /\ \A k \in Factors :
              /\ factors[1][k] \in 0..Cap
              /\ Occurrences(k) > Cap => factors[1][k] = Cap

\* C1: a run in which a factor's patterns matched more than 20 times
C1_RawAboveCap ==
    /\ factors # <<>>
    /\ Occurrences("database_changes") > Cap
    /\ factors[1]["database_changes"] = Cap

\* C2: for all in-range factor counts, ten times the score is the integer
\* 4 fr + 6 ip + 3 ui + 4 db + 6 api + 8 auth + 3 file + 6 rt (the score is
\* kept in hundredths), the score is not negative, and the emitted
\* complexity.score, rounded to one decimal, is the score itself.
C2_ScoreFormula ==
    /\ printed # <<>> =>
          /\ printed[1].score = 10 * Tenths(factors[1])
          /\ printed[1].score >= 0
    /\ complexity # <<>> => complexity[1].score = 10 * Tenths(factors[1])

\* C2: an emitted score with a decimal: 5.1
C2_EmittedScoreWithDecimal ==
    /\ complexity # <<>>
    /\ Tenths(factors[1]) = 51
    /\ complexity[1].score = 510

\* C3: get_category() gives "simple" up to a score of 5, "medium" above 5
\* and up to 15, "complex" above 15 and up to 30, "enterprise" above 30:
\* 5.0, 15.0 and 30.0 fall in the lower band and 5.1, 15.1 and 30.1 in the
\* upper one.
C3_CategoryBands ==
    printed # <<>> =>
        LET t == Tenths(factors[1])
            c == printed[1].category
        IN  /\ t <= 50 => c = "simple"
            /\ (50 < t /\ t <= 150) => c = "medium"
            /\ (150 < t /\ t <= 300) => c = "complex"
            /\ t > 300 => c = "enterprise"

\* C3: a score of exactly 15.0, which is "medium"
C3_ScoreOnThreshold ==
    /\ printed # <<>>
    /\ Tenths(factors[1]) = 150
    /\ printed[1].category = "medium"

\* C4: get_story_count_range() returns the table entry of the category,
\* which is always one of the four keys of the table (the default is never
\* taken), and neither bound is below that of a lower category.
C4_StoryRange ==
    printed # <<>> =>
        LET c == printed[1].category
            r == printed[1].stories
        IN  /\ c \in DOMAIN StoryTable
            /\ r = StoryTable[c]
            /\ \A lower \in DOMAIN StoryTable :
                  Rank(lower) <= Rank(c) =>
                      StoryTable[lower][1] <= r[1] /\ StoryTable[lower][2] <= r[2]

\* C4: factor counts of the highest category
C4_EnterpriseRange ==
    /\ printed # <<>>
    /\ printed[1].category = "enterprise"
    /\ printed[1].stories = <<26, 50>>

\* C5: get_iteration_estimate() returns the low bound of the story range and
\* the floor of 1.5 times its high bound, which is at least the high bound
\* and is 7, 18, 37 and 75 for the four categories.
C5_IterationEstimate ==
    printed # <<>> =>
        LET r == printed[1].stories
            it == printed[1].iterations
        IN  /\ it[1] = r[1]
            /\ it[2] = (3 * r[2]) \div 2
            /\ it[2] >= r[2]
            /\ it[2] = IterationHigh[printed[1].category]

\* C5: a high bound whose product with 1.5 is not an integer: 25 gives 37
C5_FloorOfHalf ==
    /\ printed # <<>>
    /\ printed[1].stories = <<13, 25>>
    /\ printed[1].iterations = <<13, 37>>

\* C6: on an empty PRD text, with the architecture text absent or empty,
\* the analyzer and generate_prd_json raise no error (the run ends in no
\* error but that of a print of main() that raises or of writing the output
\* file), and the run prints and emits eight counts of 0, score 0.0,
\* category "simple", stories "3-5" and iterations "3-7".
C6_EmptyInput ==
    ( /\ prd_status = "ok" /\ prd_doc = <<>> /\ arch_doc = <<>>
      /\ arch_given => arch_status \in {"ok", "missing"} ) =>
        /\ pc # "exit1"
        /\ pc = "raised" => raised_by \in RaisedByOutput
        /\ pc \in {"generate", "done"} => printed # <<>>
        /\ (pc = "done" /\ written # <<>>) => complexity # <<>>
        /\ printed # <<>> =>
              /\ \A k \in Factors : printed[1].factors[k] = 0
              /\ printed[1].score = 0
              /\ printed[1].category = "simple"
              /\ printed[1].stories = <<3, 5>>
              /\ printed[1].iterations = <<3, 7>>
        /\ complexity # <<>> =>
              /\ \A k \in Factors : complexity[1].factors[k] = 0
              /\ complexity[1].score = 0
              /\ complexity[1].category = "simple"
              /\ complexity[1].estimated_stories = <<"3", "-", "5">>
              /\ complexity[1].estimated_iterations = <<"3", "-", "7">>

\* C6: a finished run on an empty PRD text and an empty architecture text
C6_EmptyTextsEmitted ==
    /\ pc = "done"
    /\ complexity # <<>>
    /\ content = <<>>
    /\ arch_content = SomeText(<<>>)

\* C7, as amended: when occurrences of patterns are appended at the end of
\* the text analyzed (to the architecture text, or to the PRD text with no
\* architecture text after it), no factor count, nor the score, nor the band
\* of the category is lower than in the run before; and whatever count is
\* raised alone from the counts of a run, the score and the band are not
\* lower.
C7_MonotoneAtTheEnd ==
    /\ (Compared /\ AppendedAtTheEnd) =>
          /\ \A k \in Factors : printed[1].factors[k] >= base[1].factors[k]
          /\ printed[1].score >= base[1].score
          /\ Rank(printed[1].category) >= Rank(base[1].category)
    /\ printed # <<>> =>
          \A k \in Factors : \A v \in 0..Cap :
              v > factors[1][k] =>
                  LET raised == [factors[1] EXCEPT ![k] = v]
                  IN  /\ calculate_score(raised) >= printed[1].score
                      /\ Rank(get_category(raised)) >= Rank(printed[1].category)

\* C7: appended text that takes a factor from below the cap past it
C7_AppendedPastTheCap ==
    /\ Compared /\ AppendedAtTheEnd
    /\ base[1].factors["database_changes"] < Cap
    /\ Occurrences("database_changes") > Cap
    /\ printed[1].factors["database_changes"] = Cap
    /\ printed[1].score > base[1].score

\* C7, as claimed: for any base text, appending occurrences of a pattern of
\* category C lowers neither the count of C, nor the score, nor the band of
\* the category.
C7_MonotoneAnyAppend ==
    Compared =>
        \A k \in Factors :
            PieceOccurrences[AppendedPiece][k] > 0 =>
                /\ printed[1].factors[k] >= base[1].factors[k]
                /\ printed[1].score >= base[1].score
                /\ Rank(printed[1].category) >= Rank(base[1].category)

\* C8: an architecture document that is given but missing or unreadable is
\* treated as absent: the run does not end in an error because of it (in
\* none of exists(), read_text() and the print of the warning).
C8_ArchProblemNeverAborts ==
    (prd_status = "ok" /\ arch_given /\ arch_status # "ok") =>
        /\ pc # "exit1"
        /\ pc = "raised" =>
              raised_by \notin {"arch_path.exists", "arch_path.read_text", "print, line 320"}

\* the PRD file holds piece p
InPrd(p) == \E i \in 1..Len(prd_doc) : prd_doc[i] = p

\* C9, as amended: the feature name is the slug of the first of the three
\* title patterns that matches the PRD text, in their order and whatever the
\* architecture text holds: the labelled heading, else the first heading,
\* else the inline label, else "feature".  The slug is the title lower-cased,
\* each run of other characters than a-z and 0-9 collapsed to one "-", and
\* "-" trimmed at both ends.  A PRD text that begins with the line
\* "# My Great Feature" and that the labelled-heading pattern matches nowhere
\* yields "my-great-feature", and one that none of the three patterns
\* matches yields "feature".
C9_FeatureNamePriority ==
    written # <<>> =>
        LET name == written[1].branchName
        IN  /\ name = <<"r","a","l","p","h","/">> \o ExpectedName(prd_doc)
            /\ InPrd(2) =>
                  name = <<"r","a","l","p","h","/">> \o <<"l","i","v","e","-","l","o","g","i","n","-","a","p","i">>
            /\ (prd_doc # <<>> /\ prd_doc[1] = 1 /\ ~InPrd(2)) =>
                  name = <<"r","a","l","p","h","/">> \o <<"m","y","-","g","r","e","a","t","-","f","e","a","t","u","r","e">>
            /\ (~InPrd(1) /\ ~InPrd(2) /\ ~InPrd(3)) =>
                  name = <<"r","a","l","p","h","/">> \o <<"f","e","a","t","u","r","e">>

\* C9: a PRD that begins with "# My Great Feature" and holds no labelled
\* heading, beside an architecture text with a labelled heading
C9_HeadingInPrdOnly ==
    /\ written # <<>>
    /\ prd_doc = <<1>>
    /\ arch_doc = <<2>>
    /\ written[1].branchName = <<"r","a","l","p","h","/">> \o <<"m","y","-","g","r","e","a","t","-","f","e","a","t","u","r","e">>

\* C9, as claimed: the feature name is the slug of the first of the three
\* title patterns that matches the PRD text, a PRD text that begins with
\* "# My Great Feature" yields "my-great-feature", and one that none of the
\* patterns matches yields "feature".
C9_HeadingAtTheStart ==
    written # <<>> =>
        LET name == written[1].branchName
        IN  /\ (prd_doc # <<>> /\ prd_doc[1] = 1) => name = <<"r","a","l","p","h","/">> \o <<"m","y","-","g","r","e","a","t","-","f","e","a","t","u","r","e">>
            /\ (~InPrd(1) /\ ~InPrd(2) /\ ~InPrd(3)) =>
                  name = <<"r","a","l","p","h","/">> \o <<"f","e","a","t","u","r","e">>

\* C10: each factor's count is the smaller of 20 and the number of matches
\* of its patterns in the PRD text, a line break and the architecture text;
\* one word may count for several factors.
C10_CountsOfCombinedText ==
    printed # <<>> =>
        \A k \in Factors :
            printed[1].factors[k] = IF Occurrences(k) <= Cap THEN Occurrences(k) ELSE Cap

\* C10: "create" ends the PRD and "table token" begins the architecture text
C10_MatchAcrossTheLineBreak ==
    /\ printed # <<>>
    /\ prd_doc = <<4>>
    /\ arch_doc = <<5>>
    /\ printed[1].factors["database_changes"] = 12
    /\ printed[1].factors["ui_components"] = 1
    /\ printed[1].factors["external_apis"] = 1
    /\ printed[1].factors["authentication_features"] = 1
====
